---- MODULE Spec2Model ----
(***************************************************************************)
(* RivetQ queue core: the queue Manager (internal/queue/queue.go), the     *)
(* per-queue ready heap (priority_queue.go), the Job predicates (job.go),  *)
(* the backoff function (internal/backoff) and the WAL as the Manager      *)
(* sees it (internal/wal).                                                 *)
(*                                                                         *)
(* Time is counted in microseconds since the Unix epoch.  The zero         *)
(* time.Time is ZeroTime; the clock starts after it.  Lease tokens and job *)
(* ids are uuid strings in the code; here a fresh uuid is the next value   *)
(* of a counter, and the empty string is 0.                                *)
(*                                                                         *)
(* Each client thread (Workers) runs one Manager call at a time.  Lease    *)
(* runs entirely under the queue mutex and is one step.  Ack and Nack      *)
(* look the job up and compare the lease id, and only later take the       *)
(* queue mutex to move the job: they are two steps, so that other calls    *)
(* interleave between the check and the move exactly as the locks allow.   *)
(* Enqueue checks the idempotency key and creates the queue, and later     *)
(* appends to the WAL and pushes: two steps as well.                       *)
(*                                                                         *)
(* The Manager sees the WAL as the list of the records appended (wal).     *)
(* The WAL itself (wal.go, segment.go), with its segment files, rotation,  *)
(* replay and compaction, has a part of its own below (files, walInst),    *)
(* and so has the rate limiter (internal/ratelimit, buckets); each has a   *)
(* specification in which the rest of the state stands still.  The record  *)
(* codec (record.go) and the backoff function are functions without        *)
(* state: codec and calc hold the arguments and the result of their last   *)
(* call.                                                                   *)
(***************************************************************************)
EXTENDS Integers, Sequences, FiniteSets, TLC

(***************************************************************************)
(* Bounds of the model                                                     *)
(***************************************************************************)
MaxJobs == 2
MaxLeases == 3
MaxRestarts == 1
MaxWalFailures == 1
MaxWal == 4
\* WAL.Write calls, WAL.Compact calls and reopenings of the WAL directory
MaxWrites == 4
MaxCompactions == 1
MaxReopens == 1
\* Limiter.Allow calls, Limiter.SetRate calls and steps of the clock between them
MaxAllows == 4
MaxSetRates == 2
MaxSleeps == 2

Workers == {"w1", "w2"}
QueueNames == {"q1"}
\* The jobs the producers enqueue: an urgent delayed job that is never retried,
\* and an immediate job of low priority with the default retries.
JobInputs ==
  {[payload |-> "A", priority |-> 9, delayMs |-> 150, maxRetries |-> 0],
   [payload |-> "C", priority |-> 2, delayMs |-> 0, maxRetries |-> 3]}
VisibilityMs == {100}
MaxJobsArgs == {0, 1, 2}
IdemKeys == {""}
\* More inputs of a single producer: a job with RetryPolicy.MaxRetries = 2,
\* and an idempotency key
RetryInputs == {[payload |-> "R", priority |-> 5, delayMs |-> 0, maxRetries |-> 2]}
KeysUsed == {"k"}
\* The job of the producers that present the key
KeyInputs == {[payload |-> "C", priority |-> 2, delayMs |-> 0, maxRetries |-> 3]}
ArgInputs ==
  {[payload |-> "P", priority |-> 10, delayMs |-> 0, maxRetries |-> 3],
   [payload |-> "C", priority |-> 2, delayMs |-> 0, maxRetries |-> 3]}
MaxJobsAny == {-1, 0, 1, 2}
VisibilityAny == {0, 100}
RandSamples == {25}

(***************************************************************************)
(* Time                                                                    *)
(***************************************************************************)
UsPerMs == 1000
ZeroTime == 0
StartTime == 1000700
Instants == {StartTime, StartTime + 150000, StartTime + 400000}

IsZero(t) == t = ZeroTime

\* Record.Marshal stores ETA.UnixMilli(); Record.Unmarshal reads time.UnixMilli.
UnixMilli(t) == t \div UsPerMs
FromUnixMilli(ms) == ms * UsPerMs

(***************************************************************************)
(* backoff.Calculate.  rand.Float64() is the input u, in hundredths.        *)
(* Durations are microseconds, Config.Jitter is in hundredths, and         *)
(* Config.Multiplier is a whole number.  The code computes in float64 on   *)
(* nanoseconds; for the configurations used here every intermediate value  *)
(* is a whole number of microseconds.                                      *)
(***************************************************************************)
BaseDelayMs == 100
MaxDelayMs == 60000
Multiplier == 2
JitterPct == 10

DefaultConfig ==
  [BaseDelay |-> BaseDelayMs * UsPerMs, MaxDelay |-> MaxDelayMs * UsPerMs,
   Multiplier |-> Multiplier, Jitter |-> JitterPct]

\* A variant that leaves out the cap at MaxDelay.
CalculateUncapped(cfg, attempt, u) ==
  IF attempt = 0 THEN 0
  ELSE LET delay == cfg.BaseDelay * cfg.Multiplier ^ (attempt - 1)
           jitterRange == (delay * cfg.Jitter) \div 100
           jitterDelta == ((2 * u - 100) * jitterRange) \div 100
           d == IF cfg.Jitter > 0 THEN delay + jitterDelta ELSE delay
       IN IF d < 0 THEN 0 ELSE d

Calculate(cfg, attempt, u) ==
  IF attempt = 0 THEN 0
  ELSE LET exp == cfg.BaseDelay * cfg.Multiplier ^ (attempt - 1)
           delay == IF exp > cfg.MaxDelay THEN cfg.MaxDelay ELSE exp
           jitterRange == (delay * cfg.Jitter) \div 100
           jitterDelta == ((2 * u - 100) * jitterRange) \div 100
           d == IF cfg.Jitter > 0 THEN delay + jitterDelta ELSE delay
       IN IF d < 0 THEN 0 ELSE d

CalculateDefault(attempt, u) == Calculate(DefaultConfig, attempt, u)

\* The configurations of TestCalculate, TestCalculateMaxDelay and
\* TestCalculateWithJitter, the default one, and one with a multiplier of 3
\* and a jitter of the whole delay; the attempts; the values of rand.Float64()
Configs ==
  {[BaseDelay |-> 100 * UsPerMs, MaxDelay |-> 10000 * UsPerMs, Multiplier |-> 2, Jitter |-> 0],
   [BaseDelay |-> 1000 * UsPerMs, MaxDelay |-> 5000 * UsPerMs, Multiplier |-> 2, Jitter |-> 0],
   [BaseDelay |-> 100 * UsPerMs, MaxDelay |-> 10000 * UsPerMs, Multiplier |-> 2, Jitter |-> 10],
   DefaultConfig,
   [BaseDelay |-> 10 * UsPerMs, MaxDelay |-> 10000 * UsPerMs, Multiplier |-> 3, Jitter |-> 100]}
Attempts == 0..10
RandAny == {0, 25, 50, 99}

NoCalc == [op |-> "none", cfg |-> DefaultConfig, attempt |-> 0, u |-> 0, out |-> 0]

(***************************************************************************)
(* Job (job.go)                                                            *)
(***************************************************************************)
JobStatusReady == "ready"
JobStatusInflight == "inflight"
JobStatusDLQ == "dlq"

NoLease == 0

\* A variant that forgets the scheduled time.
IsReadyAnyTime(j, t) == j.Status = JobStatusReady

IsReady(j, t) ==
  j.Status = JobStatusReady /\ (IsZero(j.ETA) \/ j.ETA < t \/ j.ETA = t)

\* A variant that reads MaxRetries = 0 as no limit.
ShouldRetryZeroUnlimited(j) == j.MaxRetries = 0 \/ j.Tries < j.MaxRetries

ShouldRetry(j) == j.Tries < j.MaxRetries

(***************************************************************************)
(* jobHeap and priorityQueue (priority_queue.go).  A heap is the slice of  *)
(* job ids, J the Job objects they point to.  index 1 is the heap's root.  *)
(***************************************************************************)
Less(a, b) ==
  IF a.Priority # b.Priority THEN a.Priority > b.Priority
  ELSE IF a.ETA # b.ETA THEN a.ETA < b.ETA
  ELSE a.EnqueuedAt < b.EnqueuedAt

Swap(h, i, j) == [h EXCEPT ![i] = h[j], ![j] = h[i]]

\* container/heap up(h, j)
RECURSIVE HeapUp(_, _, _)
HeapUp(J, h, j) ==
  IF j = 1 THEN h
  ELSE LET i == j \div 2
       IN IF ~Less(J[h[j]], J[h[i]]) THEN h
          ELSE HeapUp(J, Swap(h, i, j), i)

\* container/heap down(h, i, n)
RECURSIVE HeapDown(_, _, _, _)
HeapDown(J, h, i, n) ==
  LET j1 == 2 * i
  IN IF j1 > n THEN h
     ELSE LET j2 == j1 + 1
              j == IF j2 <= n /\ Less(J[h[j2]], J[h[j1]]) THEN j2 ELSE j1
          IN IF ~Less(J[h[j]], J[h[i]]) THEN h
             ELSE HeapDown(J, Swap(h, i, j), j, n)

Items(h) == {h[i] : i \in 1..Len(h)}

\* priorityQueue.Push: a job id already in items is not pushed again
Push(J, h, id) ==
  IF id \in Items(h) THEN h
  ELSE HeapUp(J, Append(h, id), Len(h) + 1)

\* A variant that hands out the root and leaves it in the heap.
PopKeepsRoot(J, h) == [job |-> h[1], heap |-> h]

\* priorityQueue.Pop on a non-empty heap: the popped id and the heap left
Pop(J, h) ==
  LET n == Len(h)
      d == HeapDown(J, Swap(h, 1, n), 1, n - 1)
  IN [job |-> d[n], heap |-> SubSeq(d, 1, n - 1)]

NoJob == 0

\* priorityQueue.PopReady: only the root is looked at
PopReady(J, h, t) ==
  IF Len(h) = 0 THEN [job |-> NoJob, heap |-> h]
  ELSE IF ~IsReady(J[h[1]], t) THEN [job |-> NoJob, heap |-> h]
  ELSE Pop(J, h)

(***************************************************************************)
(* WAL records (record.go) and the WAL as a list of appended records       *)
(***************************************************************************)
RecordTypeEnqueue == 1
RecordTypeAck == 2
RecordTypeNack == 3
RecordTypeRequeue == 4
RecordTypeTombstone == 5

\* What Segment.Write stores and SegmentReader.Read gives back: the ETA goes
\* through UnixMilli, the other fields come back as written.
OnDisk(r) == [r EXCEPT !.ETA = FromUnixMilli(UnixMilli(r.ETA))]

NewRecord(type, queue, id) ==
  [Type |-> type, Queue |-> queue, JobID |-> id, Payload |-> "", Priority |-> 0,
   Tries |-> 0, MaxRetries |-> 0, ETA |-> ZeroTime, LeaseID |-> NoLease]

(***************************************************************************)
(* Record.Marshal and Record.Unmarshal (record.go), byte by byte.  Here a  *)
(* string or a []byte is the sequence of its bytes, and Headers a function *)
(* from keys to values.  Go ranges over a map in an order of its choosing: *)
(* order is the order Marshal meets the keys in.                           *)
(***************************************************************************)
\* A variant that puts the highest byte first.
RECURSIVE PutUintBigEndian(_, _)
PutUintBigEndian(v, width) ==
  IF width = 0 THEN <<>>
  ELSE PutUintBigEndian(v \div 256, width - 1) \o <<v % 256>>

\* binary.LittleEndian.PutUint16, PutUint32, PutUint64 of uint16(v), uint32(v),
\* uint64(v): the width lowest bytes of v, the lowest first
RECURSIVE PutUint(_, _)
PutUint(v, width) ==
  IF width = 0 THEN <<>>
  ELSE <<v % 256>> \o PutUint(v \div 256, width - 1)

\* binary.LittleEndian.Uint16, Uint32 at data[offset:]
RECURSIVE Uint(_, _, _)
Uint(data, offset, width) ==
  IF width = 0 THEN 0
  ELSE data[offset + 1] + 256 * Uint(data, offset + 1, width - 1)

\* int64(binary.LittleEndian.Uint64(data[offset:])): the highest byte holds
\* the sign
RECURSIVE Int64(_, _, _)
Int64(data, offset, width) ==
  IF width = 1
  THEN IF data[offset + 1] >= 128 THEN data[offset + 1] - 256 ELSE data[offset + 1]
  ELSE data[offset + 1] + 256 * Int64(data, offset + 1, width - 1)

\* A length in two bytes, and the bytes
PutString(s) == PutUint(Len(s), 2) \o s

RECURSIVE PutHeaders(_, _, _)
PutHeaders(h, order, i) ==
  IF i > Len(order) THEN <<>>
  ELSE PutString(order[i]) \o PutString(h[order[i]]) \o PutHeaders(h, order, i + 1)

Marshal(r, order) ==
  <<r.Type>> \o PutString(r.Queue) \o PutString(r.JobID) \o <<r.Priority>>
    \o PutUint(r.Tries, 4) \o PutUint(r.MaxRetries, 4)
    \o PutUint(UnixMilli(r.ETA), 8)
    \o PutUint(Len(r.Payload), 4) \o r.Payload
    \o PutUint(Len(order), 2) \o PutHeaders(r.Headers, order, 1)
    \o PutString(r.LeaseID) \o PutString(r.Reason)

\* The two checks and the copy that Unmarshal makes for a string: the string
\* and the offset behind it, or not ok for ErrInvalidRecord
GetString(data, offset) ==
  IF offset + 2 > Len(data) THEN [ok |-> FALSE]
  ELSE LET n == Uint(data, offset, 2)
       IN IF offset + 2 + n > Len(data) THEN [ok |-> FALSE]
          ELSE [ok |-> TRUE, val |-> SubSeq(data, offset + 3, offset + 2 + n),
                offset |-> offset + 2 + n]

\* The loop of Unmarshal over the headers: r.Headers[key] = val
RECURSIVE GetHeaders(_, _, _, _)
GetHeaders(data, offset, count, h) ==
  IF count = 0 THEN [ok |-> TRUE, val |-> h, offset |-> offset]
  ELSE LET key == GetString(data, offset)
       IN IF ~key.ok THEN [ok |-> FALSE]
          ELSE LET val == GetString(data, key.offset)
               IN IF ~val.ok THEN [ok |-> FALSE]
                  ELSE GetHeaders(data, val.offset, count - 1,
                                  (key.val :> val.val) @@ h)

ErrInvalidRecord == [err |-> "invalid record"]

\* Unmarshal: the error, and the record when there is none.  The fields of
\* fixed width between the job id and the payload are checked one by one in
\* the code; the last of the checks fails whenever one of them does.
Unmarshal(data) ==
  IF Len(data) < 1 THEN ErrInvalidRecord
  ELSE
  LET queue == GetString(data, 1)
  IN IF ~queue.ok THEN ErrInvalidRecord
  ELSE
  LET jobID == GetString(data, queue.offset)
  IN IF ~jobID.ok THEN ErrInvalidRecord
  ELSE
  LET o == jobID.offset
  IN IF o + 1 + 4 + 4 + 8 + 4 > Len(data) THEN ErrInvalidRecord
  ELSE
  LET payloadLen == Uint(data, o + 17, 4)
      p == o + 21
  IN IF p + payloadLen > Len(data) THEN ErrInvalidRecord
  ELSE IF p + payloadLen + 2 > Len(data) THEN ErrInvalidRecord
  ELSE
  LET headers == GetHeaders(data, p + payloadLen + 2,
                            Uint(data, p + payloadLen, 2), <<>>)
  IN IF ~headers.ok THEN ErrInvalidRecord
  ELSE
  LET leaseID == GetString(data, headers.offset)
  IN IF ~leaseID.ok THEN ErrInvalidRecord
  ELSE
  LET reason == GetString(data, leaseID.offset)
  IN IF ~reason.ok THEN ErrInvalidRecord
  ELSE [err |-> "",
        rec |-> [Type |-> data[1], Queue |-> queue.val, JobID |-> jobID.val,
                 Payload |-> SubSeq(data, p + 1, p + payloadLen),
                 Headers |-> headers.val, Priority |-> data[o + 1],
                 Tries |-> Uint(data, o + 1, 4),
                 MaxRetries |-> Uint(data, o + 5, 4),
                 ETA |-> FromUnixMilli(Int64(data, o + 9, 8)),
                 LeaseID |-> leaseID.val, Reason |-> reason.val]]

\* The records given to Marshal: every type; empty and non-empty strings; no
\* header and two; the extremes of the priority byte; a count of tries that
\* takes two bytes; an ETA on a millisecond, one between two milliseconds,
\* one before 1970 and the zero time.
RecordInputs ==
  [Type : RecordTypeEnqueue..RecordTypeTombstone,
   Queue : {<<>>, <<113, 49>>},
   JobID : {<<106, 49>>},
   Payload : {<<>>, <<0, 255>>},
   Headers : {<<>>, (<<102>> :> <<98, 97>>) @@ (<<98, 97>> :> <<>>)},
   Priority : {0, 255},
   Tries : {0, 300},
   MaxRetries : {5},
   ETA : {StartTime - 700, StartTime, -5000, ZeroTime},
   LeaseID : {<<>>, <<108>>},
   Reason : {<<>>, <<114>>}]

\* The orders a range over the map h can take
RangeOrders(h) ==
  {order \in [1..Cardinality(DOMAIN h) -> DOMAIN h] :
     \A i, j \in 1..Cardinality(DOMAIN h) : order[i] = order[j] => i = j}

NoCodec == [op |-> "none", rec |-> <<>>, data |-> <<>>, out |-> ErrInvalidRecord]

(***************************************************************************)
(* WAL segments (wal.go, segment.go).  A segment file is a sequence of     *)
(* frames [length:4][crc32:4][data]; a frame is kept as the record its     *)
(* data holds, its length in bytes, the number of its bytes that are in    *)
(* the file, and whether its data still has the checksum of its header.    *)
(***************************************************************************)
\* Config.SegmentSize, as in TestWALSegmentRotation
SegmentSize == 100
\* The bytes of the length and the checksum before the data of a frame
FrameHeader == 8
\* Job ids and lease ids are uuid strings
UUIDLen == 36
\* The bytes of Marshal's fixed-width fields and length prefixes
MarshalFixed == 32

StringLen(s) == IF s = "" THEN 0 ELSE IF s \in QueueNames THEN 2 ELSE 1

\* len(data) for data = record.Marshal(), a record without headers or reason
MarshalLen(r) ==
  MarshalFixed + StringLen(r.Queue) + UUIDLen + StringLen(r.Payload)
    + (IF r.LeaseID = NoLease THEN 0 ELSE UUIDLen)

\* What Segment.Write puts in the file
Frame(r) ==
  [rec |-> OnDisk(r), len |-> FrameHeader + MarshalLen(r),
   bytes |-> FrameHeader + MarshalLen(r), crcOk |-> TRUE]

\* file.Stat().Size()
RECURSIVE FileSize(_)
FileSize(frames) ==
  IF frames = <<>> THEN 0 ELSE Head(frames).bytes + FileSize(Tail(frames))

\* NewSegment: opens the file of the id, creating it when it does not exist;
\* the Segment object starts with the size of the file.
NewSegment(F, id) ==
  LET F2 == IF id \in DOMAIN F THEN F ELSE F @@ (id :> <<>>)
  IN [files |-> F2, segment |-> [id |-> id, size |-> FileSize(F2[id])]]

\* A variant for which no segment is ever full.
IsFullNever(seg) == FALSE

IsFull(seg) == seg.size >= SegmentSize

\* The records SegmentReader.Read gives for a frame: "record" for a record,
\* "corrupted" for ErrCorruptedData, "error" for any other error.  A frame
\* cut short at the end of the file ends in io.ErrUnexpectedEOF, or in an
\* io.EOF that is wrapped, at the length, the checksum or the data.  A frame
\* cut short with other frames behind it is read together with their bytes:
\* mid is what comes of that, a checksum mismatch or a length beyond the end.
Read(frames, i, mid) ==
  IF frames[i].bytes < frames[i].len
  THEN IF i = Len(frames) THEN "error" ELSE mid
  ELSE IF ~frames[i].crcOk THEN "corrupted"
  ELSE "record"

TornReads == {"error", "corrupted"}

\* A variant of the loop below that reads on behind a corrupted frame.
RECURSIVE ReadSegmentResync(_, _, _)
ReadSegmentResync(frames, i, mid) ==
  IF i > Len(frames) THEN [records |-> <<>>, end |-> "EOF"]
  ELSE LET got == Read(frames, i, mid)
           rest == ReadSegmentResync(frames, i + 1, mid)
       IN IF got = "record"
          THEN [records |-> <<frames[i].rec>> \o rest.records, end |-> rest.end]
          ELSE IF got = "corrupted" THEN rest
          ELSE [records |-> <<>>, end |-> got]

\* The inner loop of Replay and of Compact over one segment, from frame i:
\* the records read, and what ended the loop.
RECURSIVE ReadSegment(_, _, _)
ReadSegment(frames, i, mid) ==
  IF i > Len(frames) THEN [records |-> <<>>, end |-> "EOF"]
  ELSE LET got == Read(frames, i, mid)
       IN IF got = "record"
          THEN LET rest == ReadSegment(frames, i + 1, mid)
               IN [records |-> <<frames[i].rec>> \o rest.records, end |-> rest.end]
          ELSE [records |-> <<>>, end |-> got]

\* A variant that gives the ids in descending order.
RECURSIVE SortIDsDescending(_)
SortIDsDescending(ids) ==
  IF ids = {} THEN <<>>
  ELSE LET most == CHOOSE id \in ids : \A other \in ids : id >= other
       IN <<most>> \o SortIDsDescending(ids \ {most})

\* sort.Slice(segmentIDs, ...): the ids in ascending order
RECURSIVE SortIDs(_)
SortIDs(ids) ==
  IF ids = {} THEN <<>>
  ELSE LET least == CHOOSE id \in ids : \A other \in ids : id <= other
       IN <<least>> \o SortIDs(ids \ {least})

\* No segment: a nil activeSegment
NoSegment == -1

\* loadSegments on a directory that has segment files
loadSegments(F) ==
  LET segmentIDs == SortIDs(DOMAIN F)
      n == Len(segmentIDs)
  IN [segments |-> [i \in 1..n |-> NewSegment(F, segmentIDs[i]).segment],
      activeSegment |-> segmentIDs[n],
      nextSegmentID |-> segmentIDs[n] + 1]

createSegment(F, W) ==
  LET new == NewSegment(F, W.nextSegmentID)
  IN [files |-> new.files,
      wal |-> [segments |-> Append(W.segments, new.segment),
               activeSegment |-> W.nextSegmentID,
               nextSegmentID |-> W.nextSegmentID + 1]]

\* New(cfg) on the directory with the files F
New(F) ==
  IF DOMAIN F = {}
  THEN createSegment(F, [segments |-> <<>>, activeSegment |-> NoSegment,
                         nextSegmentID |-> 0])
  ELSE [files |-> F, wal |-> loadSegments(F)]

\* The records a client of the WAL appends
WalJobs == {1, 2}
WalRecords ==
  {[NewRecord(RecordTypeEnqueue, "q1", 1) EXCEPT !.Payload = "A", !.ETA = StartTime],
   [NewRecord(RecordTypeEnqueue, "q1", 2) EXCEPT !.Payload = "C", !.ETA = StartTime],
   [NewRecord(RecordTypeAck, "q1", 1) EXCEPT !.LeaseID = 1]}
\* The bytes a power loss leaves of the frame being written: a part of the
\* length, a part of the checksum, a part of the data
TornCuts == {2, 6, 20}

NoWalRet == [op |-> "none", records |-> <<>>, err |-> "", live |-> {}]

(***************************************************************************)
(* The rate limiter (ratelimit.go).  Tokens are float64 in the code; here  *)
(* they are counted in millionths of a token, so that the tokens a refill  *)
(* adds, elapsed seconds times tokens per second, are the elapsed          *)
(* microseconds times the rate, without rounding.                          *)
(***************************************************************************)
TokenUnit == 1000000

\* The queues that are limited, the (capacity, refillRate) pairs given to
\* SetRate, and the time that passes between two calls
LimitQueues == {"q1", "q2"}
Rates ==
  {[capacity |-> 2, refillRate |-> 2], [capacity |-> 1, refillRate |-> 1],
   [capacity |-> 0, refillRate |-> 0], [capacity |-> -1, refillRate |-> 1],
   [capacity |-> 1, refillRate |-> -1]}
SleepMs == {500}

\* A variant that takes every bucket for a limiting one.
EnabledAlways(capacity, refillRate) == TRUE

\* capacity > 0 && refillRate > 0
Enabled(capacity, refillRate) == capacity > 0 /\ refillRate > 0

NewTokenBucket(capacity, refillRate, t) ==
  [capacity |-> capacity * TokenUnit, tokens |-> capacity * TokenUnit,
   refillRate |-> refillRate, lastRefill |-> t,
   enabled |-> Enabled(capacity, refillRate)]

\* A variant that adds the tokens and does not cut them at the capacity.
refillUncapped(tb, t) ==
  [tb EXCEPT !.tokens = @ + (t - tb.lastRefill) * tb.refillRate, !.lastRefill = t]

\* TokenBucket.refill at time t
refill(tb, t) ==
  LET tokens == tb.tokens + (t - tb.lastRefill) * tb.refillRate
  IN [tb EXCEPT !.tokens = IF tokens > tb.capacity THEN tb.capacity ELSE tokens,
                !.lastRefill = t]

\* TokenBucket.AllowN at time t: the bucket afterwards, and the decision
AllowN(tb, n, t) ==
  IF ~tb.enabled THEN [bucket |-> tb, ok |-> TRUE]
  ELSE LET b == refill(tb, t)
       IN IF b.tokens >= n * TokenUnit
          THEN [bucket |-> [b EXCEPT !.tokens = @ - n * TokenUnit], ok |-> TRUE]
          ELSE [bucket |-> b, ok |-> FALSE]

\* TokenBucket.SetRate at time t
TokenBucketSetRate(tb, capacity, refillRate, t) ==
  LET b == refill(tb, t)
  IN [b EXCEPT !.capacity = capacity * TokenUnit,
               !.refillRate = refillRate,
               !.enabled = Enabled(capacity, refillRate),
               !.tokens = IF b.tokens > capacity * TokenUnit
                          THEN capacity * TokenUnit ELSE b.tokens]

NoTime == -1
NoLimRet == [op |-> "none", queue |-> "", ok |-> TRUE]

(***************************************************************************)
(* State                                                                   *)
(***************************************************************************)
VARIABLES
  now,        \* the clock, time.Now()
  queues,     \* Manager.queues: the names of the queues created
  jobs,       \* the Job objects of this process, by job id
  ready,      \* Queue.ready.heap of each queue: a sequence of job ids
  inflight,   \* Queue.inflight of each queue: the job ids in the map
  dlq,        \* Queue.dlq of each queue: the job ids in the map
  wal,        \* the records appended to the WAL, in order
  idem,       \* the store's idempotency keys: key -> job id
  nextJob,    \* the next fresh job id
  nextLease,  \* the next fresh lease id
  pc,         \* where each client thread is in its call
  arg,        \* the locals of the call of each client thread
  last,       \* the call that returned in the last step, if one did: what it
              \* returned, and the arguments it was given; and the queues
              \* whose mutex was held while the step called wal.Write
  lastLease,  \* history: the lease id of the most recent Lease of each job
  restarts,   \* history: the number of restarts
  walFails    \* history: the number of WAL appends that failed

\* The WAL as files and segments
VARIABLES
  files,       \* the WAL directory: segment id -> the frames of the file
  walInst,     \* the WAL object: segments, activeSegment, nextSegmentID
  walRet,      \* the WAL call of the last step: the records it delivered, the
               \* error it returned, and the live ids it was given
  written,     \* history: the records of the Writes that returned nil, in order
  damage,      \* history: what has happened to the files: "none", "crc", "torn"
  compactions, \* history: the number of Compact calls
  reopens      \* history: the number of times the directory was opened again

\* The rate limiter
VARIABLES
  buckets,     \* Limiter.buckets: queue name -> TokenBucket
  limRet,      \* what the Limiter call of the last step returned
  limHist,     \* history, by queue: the number of SetRate calls, the time of
               \* the first, the times of the Allows that returned true, and
               \* the time of the last Allow that returned false with no
               \* Allow returning true since
  limCount     \* history: the numbers of Allow calls, SetRate calls and sleeps

\* The record codec
VARIABLES
  codec        \* the last call of Marshal or Unmarshal: the record given to
               \* Marshal, the bytes it returned, and what Unmarshal made of them

\* The backoff function
VARIABLES
  calc         \* the last call of backoff.Calculate: its arguments, the value
               \* rand.Float64() gave, and the delay returned

quiet == <<queues, jobs, ready, inflight, dlq, wal, idem, nextJob, nextLease,
           pc, arg, last, lastLease, restarts, walFails>>
mgr == <<now, quiet>>
walv == <<files, walInst, walRet, written, damage, compactions, reopens>>
limv == <<buckets, limRet, limHist, limCount>>
purev == <<codec, calc>>
ext == <<walv, limv, purev>>

vars == <<mgr, ext>>

mem == <<queues, jobs, ready, inflight, dlq>>
hist == <<lastLease, restarts>>

NoArg == [id |-> NoJob, lease |-> NoLease, queue |-> "", key |-> ""]
NoRet ==
  [op |-> "none", err |-> "", queue |-> "", key |-> "", id |-> NoJob,
   lease |-> NoLease, jobs |-> <<>>, t |-> ZeroTime,
   maxJobs |-> 0, visibilityMs |-> 0, held |-> {}]

Return(op, err, id) ==
  [op |-> op, err |-> err, queue |-> "", key |-> "", id |-> id,
   lease |-> NoLease, jobs |-> <<>>, t |-> now,
   maxJobs |-> 0, visibilityMs |-> 0, held |-> {}]

EmptyState ==
  [queues |-> {}, jobs |-> <<>>,
   ready |-> [q \in QueueNames |-> <<>>],
   inflight |-> [q \in QueueNames |-> {}],
   dlq |-> [q \in QueueNames |-> {}]]

\* NewManager over an empty WAL directory and an empty store
Init ==
  /\ now = StartTime
  /\ queues = {}
  /\ jobs = <<>>
  /\ ready = [q \in QueueNames |-> <<>>]
  /\ inflight = [q \in QueueNames |-> {}]
  /\ dlq = [q \in QueueNames |-> {}]
  /\ wal = <<>>
  /\ idem = <<>>
  /\ nextJob = 1
  /\ nextLease = 1
  /\ pc = [w \in Workers |-> "idle"]
  /\ arg = [w \in Workers |-> NoArg]
  /\ last = NoRet
  /\ lastLease = <<>>
  /\ restarts = 0
  /\ walFails = 0
  /\ files = New(<<>>).files
  /\ walInst = New(<<>>).wal
  /\ walRet = NoWalRet
  /\ written = <<>>
  /\ damage = "none"
  /\ compactions = 0
  /\ reopens = 0
  /\ buckets = <<>>
  /\ limRet = NoLimRet
  /\ limHist = [q \in LimitQueues |->
                  [sets |-> 0, created |-> NoTime, admits |-> <<>>, denied |-> NoTime]]
  /\ limCount = [allows |-> 0, sets |-> 0, sleeps |-> 0]
  /\ codec = NoCodec
  /\ calc = NoCalc

(***************************************************************************)
(* Manager.replayWAL: the callback applied to one record.  s is the        *)
(* Manager's state so far, t the time of the replay.                       *)
(***************************************************************************)
ReplayRecord(s, r, t) ==
  CASE r.Type = RecordTypeEnqueue ->
         LET job == [ID |-> r.JobID, Queue |-> r.Queue, Payload |-> r.Payload,
                     Priority |-> r.Priority, Tries |-> r.Tries,
                     MaxRetries |-> r.MaxRetries, ETA |-> r.ETA,
                     LeaseID |-> NoLease, LeaseDeadline |-> ZeroTime,
                     Status |-> JobStatusReady, EnqueuedAt |-> t]
         IN IF r.JobID \in Items(s.ready[r.Queue])
            THEN [s EXCEPT !.queues = @ \cup {r.Queue}]
            ELSE LET J == [i \in (DOMAIN s.jobs) \cup {r.JobID} |->
                             IF i = r.JobID THEN job ELSE s.jobs[i]]
                 IN [s EXCEPT !.queues = @ \cup {r.Queue},
                              !.jobs = J,
                              !.ready[r.Queue] = Push(J, @, r.JobID)]
    [] r.Type = RecordTypeAck ->
         IF r.Queue \in s.queues
         THEN [s EXCEPT !.inflight[r.Queue] = @ \ {r.JobID}]
         ELSE s
    [] r.Type \in {RecordTypeNack, RecordTypeRequeue} ->
         IF r.Queue \in s.queues /\ r.JobID \in s.inflight[r.Queue]
         THEN LET job == [s.jobs[r.JobID] EXCEPT
                            !.Tries = r.Tries, !.ETA = r.ETA,
                            !.Status = JobStatusReady,
                            !.LeaseID = NoLease, !.LeaseDeadline = ZeroTime]
                  J == [s.jobs EXCEPT ![r.JobID] = job]
              IN IF ShouldRetry(job)
                 THEN [s EXCEPT !.inflight[r.Queue] = @ \ {r.JobID},
                                !.jobs = J,
                                !.ready[r.Queue] = Push(J, @, r.JobID)]
                 ELSE [s EXCEPT !.inflight[r.Queue] = @ \ {r.JobID},
                                !.jobs = [J EXCEPT ![r.JobID].Status = JobStatusDLQ],
                                !.dlq[r.Queue] = @ \cup {r.JobID}]
         ELSE s
    [] r.Type = RecordTypeTombstone ->
         IF r.Queue \in s.queues
         THEN [s EXCEPT !.inflight[r.Queue] = @ \ {r.JobID},
                        !.dlq[r.Queue] = @ \ {r.JobID}]
         ELSE s
    [] OTHER -> s

\* WAL.Replay driving the callback over the records in order
RECURSIVE ReplayFrom(_, _, _, _)
ReplayFrom(s, recs, i, t) ==
  IF i > Len(recs) THEN s
  ELSE ReplayFrom(ReplayRecord(s, recs[i], t), recs, i + 1, t)

replayWAL(recs, t) == ReplayFrom(EmptyState, recs, 1, t)

(***************************************************************************)
(* Helpers of the actions                                                  *)
(***************************************************************************)
Ext(f, k, v) == [x \in (DOMAIN f) \cup {k} |-> IF x = k THEN v ELSE f[x]]

Perms(S) ==
  {p \in [1..Cardinality(S) -> S] : \A i, j \in 1..Cardinality(S) : p[i] = p[j] => i = j}

\* What a caller sees of a leased job
View(j) ==
  [ID |-> j.ID, Queue |-> j.Queue, Payload |-> j.Payload, Priority |-> j.Priority,
   Tries |-> j.Tries, ETA |-> j.ETA, EnqueuedAt |-> j.EnqueuedAt,
   LeaseID |-> j.LeaseID]

Contents(c) == UNION {c[q] : q \in QueueNames}

\* The Job objects still reachable from a container or from a call in progress;
\* the others are garbage.
Collect(J, rdy, infl, d, a) ==
  LET keep == UNION {Items(rdy[q]) : q \in QueueNames} \cup Contents(infl)
                \cup Contents(d) \cup {a[w].id : w \in Workers}
  IN [i \in (DOMAIN J) \cap keep |-> J[i]]

Finish(w, r) ==
  /\ pc' = [pc EXCEPT ![w] = "idle"]
  /\ arg' = [arg EXCEPT ![w] = NoArg]
  /\ last' = r

Goto(w, label, a) ==
  /\ pc' = [pc EXCEPT ![w] = label]
  /\ arg' = [arg EXCEPT ![w] = a]
  /\ last' = NoRet

\* A variant that never finds a key.
GetIdempotencyKeyMiss(key) == NoJob

\* Store.GetIdempotencyKey: the job id stored under the key, or none
GetIdempotencyKey(key) == IF key \in DOMAIN idem THEN idem[key] ELSE NoJob

\* wal.Write: the append succeeds (ok) or fails and leaves the WAL as it was
WalWrite(r, ok) ==
  IF ok THEN Len(wal) < MaxWal /\ wal' = Append(wal, OnDisk(r)) /\ walFails' = walFails
  ELSE wal' = wal /\ walFails' = walFails + 1

(***************************************************************************)
(* Manager.Enqueue, first part: the idempotency check, the rate limit (no  *)
(* bucket is configured: Limiter.Allow is true), getOrCreateQueue and the  *)
(* new Job.                                                                *)
(***************************************************************************)
EnqueueBegin(w, q, payload, priority, delayMs, maxRetries, key) ==
  /\ pc[w] = "idle"
  /\ IF key # "" /\ GetIdempotencyKey(key) # NoJob
     THEN /\ Finish(w, [Return("enqueue", "", GetIdempotencyKey(key)) EXCEPT
                         !.queue = q, !.key = key])
          /\ UNCHANGED <<queues, jobs, nextJob>>
     ELSE LET eta == IF delayMs > 0 THEN now + delayMs * UsPerMs ELSE now
              job == [ID |-> nextJob, Queue |-> q, Payload |-> payload,
                      Priority |-> priority, Tries |-> 0, MaxRetries |-> maxRetries,
                      ETA |-> eta, LeaseID |-> NoLease, LeaseDeadline |-> ZeroTime,
                      Status |-> JobStatusReady, EnqueuedAt |-> now]
          IN /\ nextJob <= MaxJobs
             /\ queues' = queues \cup {q}
             /\ jobs' = Ext(jobs, nextJob, job)
             /\ nextJob' = nextJob + 1
             /\ Goto(w, "enqueue_wal", [NoArg EXCEPT !.id = nextJob, !.queue = q, !.key = key])
  /\ UNCHANGED <<now, ready, inflight, dlq, wal, idem, nextLease, hist, walFails, ext>>

(***************************************************************************)
(* Manager.Enqueue, second part: the WAL append, the idempotency key and   *)
(* the push under the queue mutex.                                         *)
(***************************************************************************)
EnqueueCommit(w, ok) ==
  /\ pc[w] = "enqueue_wal"
  /\ ok \/ walFails < MaxWalFailures
  /\ LET id == arg[w].id
         q == arg[w].queue
         job == jobs[id]
         record == [NewRecord(RecordTypeEnqueue, q, id) EXCEPT
                      !.Payload = job.Payload, !.Priority = job.Priority,
                      !.Tries = 0, !.MaxRetries = job.MaxRetries, !.ETA = job.ETA]
     IN /\ WalWrite(record, ok)
        /\ IF ok
           THEN /\ idem' = IF arg[w].key # "" THEN Ext(idem, arg[w].key, id) ELSE idem
                /\ ready' = [ready EXCEPT ![q] = Push(jobs, @, id)]
                /\ jobs' = jobs
                /\ Finish(w, [Return("enqueue", "", id) EXCEPT
                                !.queue = q, !.key = arg[w].key])
           ELSE /\ idem' = idem
                /\ ready' = ready
                /\ jobs' = Collect(jobs, ready, inflight, dlq, [arg EXCEPT ![w] = NoArg])
                /\ Finish(w, [Return("enqueue", "wal", NoJob) EXCEPT
                                !.queue = q, !.key = arg[w].key])
  /\ UNCHANGED <<now, queues, inflight, dlq, nextJob, nextLease, hist, ext>>

(***************************************************************************)
(* Manager.Lease: the loop of PopReady under the queue mutex.  s carries   *)
(* the Job objects, the heap, the in-flight map, the jobs leased so far    *)
(* and the next fresh lease id.                                            *)
(***************************************************************************)
\* A variant of the loop that does not count the jobs it takes.
RECURSIVE LeaseLoopAll(_, _, _, _)
LeaseLoopAll(s, i, t, leaseDeadline) ==
  IF i = 0 THEN s
  ELSE LET p == PopReady(s.jobs, s.heap, t)
       IN IF p.job = NoJob THEN s
          ELSE LET job == [s.jobs[p.job] EXCEPT
                             !.LeaseID = s.nextLease,
                             !.LeaseDeadline = leaseDeadline,
                             !.Status = JobStatusInflight]
               IN LeaseLoopAll([jobs |-> [s.jobs EXCEPT ![p.job] = job],
                                heap |-> p.heap,
                                inflight |-> s.inflight \cup {p.job},
                                leased |-> Append(s.leased, View(job)),
                                nextLease |-> s.nextLease + 1],
                               i, t, leaseDeadline)

RECURSIVE LeaseLoop(_, _, _, _)
LeaseLoop(s, i, t, leaseDeadline) ==
  IF i = 0 THEN s
  ELSE LET p == PopReady(s.jobs, s.heap, t)
       IN IF p.job = NoJob THEN s
          ELSE LET job == [s.jobs[p.job] EXCEPT
                             !.LeaseID = s.nextLease,
                             !.LeaseDeadline = leaseDeadline,
                             !.Status = JobStatusInflight]
               IN LeaseLoop([jobs |-> [s.jobs EXCEPT ![p.job] = job],
                             heap |-> p.heap,
                             inflight |-> s.inflight \cup {p.job},
                             leased |-> Append(s.leased, View(job)),
                             nextLease |-> s.nextLease + 1],
                            i - 1, t, leaseDeadline)

Lease(w, q, maxJobs, visibilityMs) ==
  /\ pc[w] = "idle"
  /\ IF q \notin queues
     THEN /\ Finish(w, [Return("lease", "queue not found", NoJob) EXCEPT
                           !.queue = q, !.maxJobs = maxJobs,
                           !.visibilityMs = visibilityMs])
          /\ UNCHANGED <<jobs, ready, inflight, nextLease, lastLease>>
     ELSE LET n == IF maxJobs <= 0 THEN 1 ELSE maxJobs
              s == LeaseLoop([jobs |-> jobs, heap |-> ready[q],
                              inflight |-> inflight[q], leased |-> <<>>,
                              nextLease |-> nextLease],
                             n, now, now + visibilityMs * UsPerMs)
          IN /\ s.nextLease <= MaxLeases + 1
             /\ jobs' = s.jobs
             /\ ready' = [ready EXCEPT ![q] = s.heap]
             /\ inflight' = [inflight EXCEPT ![q] = s.inflight]
             /\ nextLease' = s.nextLease
             /\ lastLease' = [i \in (DOMAIN lastLease) \cup {s.leased[k].ID : k \in 1..Len(s.leased)} |->
                                IF \E k \in 1..Len(s.leased) : s.leased[k].ID = i
                                THEN s.jobs[i].LeaseID ELSE lastLease[i]]
             /\ Finish(w, [Return("lease", "", NoJob) EXCEPT
                              !.queue = q, !.jobs = s.leased, !.maxJobs = maxJobs,
                              !.visibilityMs = visibilityMs])
  /\ UNCHANGED <<now, queues, dlq, wal, idem, nextJob, restarts, walFails, ext>>

\* A variant that finds the job and does not compare the lease id.
FindAnyLease(w, op, next, jobID, leaseID) ==
  /\ pc[w] = "idle"
  /\ IF \A q \in queues : jobID \notin inflight[q]
     THEN Finish(w, Return(op, "not inflight", jobID))
     ELSE \E q \in queues :
            /\ jobID \in inflight[q]
            /\ Goto(w, next, [NoArg EXCEPT !.id = jobID, !.lease = leaseID, !.queue = q])
  /\ UNCHANGED <<now, mem, wal, idem, nextJob, nextLease, hist, walFails, ext>>

(***************************************************************************)
(* Manager.Ack and Manager.Nack, first part: the search of the in-flight   *)
(* maps under the read locks and the comparison of the lease id.           *)
(***************************************************************************)
Find(w, op, next, jobID, leaseID) ==
  /\ pc[w] = "idle"
  /\ IF \A q \in queues : jobID \notin inflight[q]
     THEN Finish(w, Return(op, "not inflight", jobID))
     ELSE IF jobs[jobID].LeaseID # leaseID
     THEN Finish(w, Return(op, "invalid lease", jobID))
     ELSE \E q \in queues :
            /\ jobID \in inflight[q]
            /\ Goto(w, next, [NoArg EXCEPT !.id = jobID, !.lease = leaseID, !.queue = q])
  /\ UNCHANGED <<now, mem, wal, idem, nextJob, nextLease, hist, walFails, ext>>

AckBegin(w, jobID, leaseID) == Find(w, "ack", "ack_wal", jobID, leaseID)

NackBegin(w, jobID, leaseID) == Find(w, "nack", "nack_wal", jobID, leaseID)

(***************************************************************************)
(* Manager.Ack, second part: the ACK record, then the removal from the     *)
(* in-flight map under the queue mutex.                                    *)
(***************************************************************************)
AckCommit(w, ok) ==
  /\ pc[w] = "ack_wal"
  /\ ok \/ walFails < MaxWalFailures
  /\ LET id == arg[w].id
         q == arg[w].queue
         record == [NewRecord(RecordTypeAck, jobs[id].Queue, id) EXCEPT
                      !.LeaseID = arg[w].lease]
     IN /\ WalWrite(record, ok)
        /\ IF ok
           THEN /\ inflight' = [inflight EXCEPT ![q] = @ \ {id}]
                /\ Finish(w, [Return("ack", "", id) EXCEPT !.lease = arg[w].lease])
           ELSE /\ inflight' = inflight
                /\ Finish(w, Return("ack", "wal", id))
        /\ jobs' = Collect(jobs, ready, inflight', dlq, arg')
  /\ UNCHANGED <<now, queues, ready, dlq, idem, nextJob, nextLease, hist, ext>>

(***************************************************************************)
(* Manager.Nack, second part: the Job is changed (Tries, ETA, lease        *)
(* fields, Status) before the NACK record is appended; the move to ready   *)
(* or to the dlq follows a successful append.                              *)
(***************************************************************************)
NackCommit(w, ok, u) ==
  /\ pc[w] = "nack_wal"
  /\ ok \/ walFails < MaxWalFailures
  /\ LET id == arg[w].id
         q == arg[w].queue
         tries == jobs[id].Tries + 1
         j1 == [jobs[id] EXCEPT !.Tries = tries,
                                !.ETA = now + CalculateDefault(tries, u),
                                !.LeaseID = NoLease,
                                !.LeaseDeadline = ZeroTime]
     IN IF ShouldRetry(j1)
        THEN LET job == [j1 EXCEPT !.Status = JobStatusReady]
                 J == [jobs EXCEPT ![id] = job]
                 record == [NewRecord(RecordTypeNack, job.Queue, id) EXCEPT
                              !.LeaseID = arg[w].lease, !.Tries = job.Tries,
                              !.ETA = job.ETA, !.Priority = job.Priority,
                              !.MaxRetries = job.MaxRetries]
             IN /\ WalWrite(record, ok)
                /\ dlq' = dlq
                /\ IF ok
                   THEN /\ inflight' = [inflight EXCEPT ![q] = @ \ {id}]
                        /\ ready' = [ready EXCEPT ![q] = Push(J, @, id)]
                        /\ Finish(w, [Return("nack", "", id) EXCEPT !.lease = arg[w].lease])
                   ELSE /\ UNCHANGED <<inflight, ready>>
                        /\ Finish(w, Return("nack", "wal", id))
                /\ jobs' = Collect(J, ready', inflight', dlq', arg')
        ELSE LET job == [j1 EXCEPT !.Status = JobStatusDLQ]
                 record == [NewRecord(RecordTypeNack, job.Queue, id) EXCEPT
                              !.LeaseID = arg[w].lease, !.Tries = job.Tries]
             IN /\ WalWrite(record, ok)
                /\ ready' = ready
                /\ IF ok
                   THEN /\ inflight' = [inflight EXCEPT ![q] = @ \ {id}]
                        /\ dlq' = [dlq EXCEPT ![q] = @ \cup {id}]
                        /\ Finish(w, [Return("nack", "", id) EXCEPT !.lease = arg[w].lease])
                   ELSE /\ UNCHANGED <<inflight, dlq>>
                        /\ Finish(w, Return("nack", "wal", id))
                /\ jobs' = Collect([jobs EXCEPT ![id] = job], ready', inflight', dlq', arg')
  /\ UNCHANGED <<now, queues, idem, nextJob, nextLease, hist, ext>>

(***************************************************************************)
(* Manager.checkLeaseTimeouts, one tick of leaseTimeoutWorker.  The        *)
(* in-flight map is ranged over in an order the runtime picks (order); u   *)
(* is the rand of each job's backoff and ok whether its REQUEUE append     *)
(* succeeds.  The error of that append is dropped by the code.  The whole  *)
(* loop over a queue runs between queue.mu.Lock() and queue.mu.Unlock(),   *)
(* the call of wal.Write included.  Enqueue, Ack and Nack call wal.Write   *)
(* with no queue mutex held and take the mutex afterwards.                 *)
(***************************************************************************)
\* A variant that takes the leases still running for the expired ones.
ExpiredReversed(q, t) ==
  {id \in inflight[q] : ~IsZero(jobs[id].LeaseDeadline) /\ jobs[id].LeaseDeadline > t}

Expired(q, t) ==
  {id \in inflight[q] : ~IsZero(jobs[id].LeaseDeadline) /\ jobs[id].LeaseDeadline < t}

RECURSIVE ReclaimJobs(_, _, _, _, _, _, _)
ReclaimJobs(s, q, order, i, t, u, ok) ==
  IF i > Len(order) THEN s
  ELSE LET id == order[i]
           tries == s.jobs[id].Tries + 1
           j1 == [s.jobs[id] EXCEPT !.Tries = tries,
                                    !.ETA = t + CalculateDefault(tries, u[id]),
                                    !.LeaseID = NoLease,
                                    !.LeaseDeadline = ZeroTime]
       IN IF ShouldRetry(j1)
          THEN LET job == [j1 EXCEPT !.Status = JobStatusReady]
                   J == [s.jobs EXCEPT ![id] = job]
                   record == [NewRecord(RecordTypeRequeue, job.Queue, id) EXCEPT
                                !.Tries = job.Tries, !.ETA = job.ETA,
                                !.Priority = job.Priority,
                                !.MaxRetries = job.MaxRetries]
               IN ReclaimJobs([s EXCEPT !.jobs = J,
                                        !.inflight[q] = @ \ {id},
                                        !.ready[q] = Push(J, @, id),
                                        !.wal = IF ok[id] THEN Append(@, OnDisk(record)) ELSE @,
                                        !.walFails = IF ok[id] THEN @ ELSE @ + 1,
                                        !.held = @ \cup {q}],
                              q, order, i + 1, t, u, ok)
          ELSE ReclaimJobs([s EXCEPT !.jobs = [s.jobs EXCEPT ![id] =
                                                 [j1 EXCEPT !.Status = JobStatusDLQ]],
                                     !.inflight[q] = @ \ {id},
                                     !.dlq[q] = @ \cup {id}],
                           q, order, i + 1, t, u, ok)

RECURSIVE ReclaimQueues(_, _, _, _, _, _, _)
ReclaimQueues(s, qorder, k, order, t, u, ok) ==
  IF k > Len(qorder) THEN s
  ELSE ReclaimQueues(ReclaimJobs(s, qorder[k], order[qorder[k]], 1, t, u, ok),
                     qorder, k + 1, order, t, u, ok)

checkLeaseTimeouts(oks) ==
  LET all == UNION {Expired(q, now) : q \in queues}
  IN /\ all # {}
     /\ \E qorder \in Perms(queues) :
        \E order \in {f \in [queues -> UNION {Perms(Expired(q, now)) : q \in queues}] :
                        \A q \in queues : f[q] \in Perms(Expired(q, now))} :
        \E u \in [all -> RandSamples] :
        \E ok \in [all -> oks] :
          LET s == ReclaimQueues([jobs |-> jobs, ready |-> ready, inflight |-> inflight,
                                  dlq |-> dlq, wal |-> wal, walFails |-> walFails,
                                  held |-> {}],
                                 qorder, 1, order, now, u, ok)
          IN /\ s.walFails <= MaxWalFailures
             /\ Len(s.wal) <= MaxWal
             /\ jobs' = s.jobs
             /\ ready' = s.ready
             /\ inflight' = s.inflight
             /\ dlq' = s.dlq
             /\ wal' = s.wal
             /\ walFails' = s.walFails
             /\ last' = [NoRet EXCEPT !.held = s.held]
     /\ UNCHANGED <<now, queues, idem, nextJob, nextLease, pc, arg, hist, ext>>

(***************************************************************************)
(* The clock moves on to a later instant.                                  *)
(***************************************************************************)
Advance ==
  /\ \E t \in Instants : t > now /\ now' = t
  /\ last' = NoRet
  /\ UNCHANGED <<mem, wal, idem, nextJob, nextLease, pc, arg, hist, walFails, ext>>

(***************************************************************************)
(* The process is killed and started again: wal.New over the same          *)
(* directory, NewManager, Manager.Start.  The calls in progress are gone,  *)
(* the WAL and the store stay.                                             *)
(***************************************************************************)
Start ==
  /\ restarts < MaxRestarts
  /\ LET s == replayWAL(wal, now)
     IN /\ queues' = s.queues
        /\ jobs' = s.jobs
        /\ ready' = s.ready
        /\ inflight' = s.inflight
        /\ dlq' = s.dlq
  /\ pc' = [w \in Workers |-> "idle"]
  /\ arg' = [w \in Workers |-> NoArg]
  /\ last' = Return("start", "", NoJob)
  /\ restarts' = restarts + 1
  /\ UNCHANGED <<now, wal, idem, nextJob, nextLease, lastLease, walFails, ext>>

(***************************************************************************)
(* The operations of the WAL.  Each works under WAL.mu from its first      *)
(* statement to its return, and is one step.                               *)
(***************************************************************************)
Active(W) == CHOOSE seg \in {W.segments[i] : i \in 1..Len(W.segments)} :
               seg.id = W.activeSegment

\* WAL.Write, with Segment.Write on the active segment
Write(r) ==
  /\ Len(written) < MaxWrites
  /\ LET c == IF IsFull(Active(walInst))
              THEN createSegment(files, walInst)
              ELSE [files |-> files, wal |-> walInst]
         a == c.wal.activeSegment
     IN /\ files' = [c.files EXCEPT ![a] = Append(@, Frame(r))]
        /\ walInst' = [c.wal EXCEPT !.segments =
                         [i \in 1..Len(c.wal.segments) |->
                            IF c.wal.segments[i].id = a
                            THEN [c.wal.segments[i] EXCEPT !.size = @ + Frame(r).len]
                            ELSE c.wal.segments[i]]]
  /\ written' = Append(written, r)
  /\ walRet' = [NoWalRet EXCEPT !.op = "write"]
  /\ UNCHANGED <<mgr, limv, purev, damage, compactions, reopens>>

\* The outer loop of WAL.Replay from the i-th segment of the list: the
\* records given to the callback, and the error returned.
RECURSIVE ReplayLoop(_, _, _, _)
ReplayLoop(F, segs, i, mid) ==
  IF i > Len(segs) THEN [records |-> <<>>, err |-> ""]
  ELSE LET seg == ReadSegment(F[segs[i].id], 1, mid)
       IN IF seg.end = "error"
          THEN [records |-> seg.records, err |-> "failed to read from segment"]
          ELSE LET rest == ReplayLoop(F, segs, i + 1, mid)
               IN [records |-> seg.records \o rest.records, err |-> rest.err]

Replay(mid) ==
  /\ LET out == ReplayLoop(files, walInst.segments, 1, mid)
     IN walRet' = [NoWalRet EXCEPT !.op = "replay", !.records = out.records,
                                 !.err = out.err]
  /\ UNCHANGED <<mgr, limv, purev, files, walInst, written, damage, compactions, reopens>>

\* The loop of WAL.Compact over the segments before the active one, from the
\* i-th: the frames written to the temporary segment, and the error returned.
RECURSIVE CompactLoop(_, _, _, _, _)
CompactLoop(F, segs, i, activeJobIDs, mid) ==
  IF i > Len(segs) - 1 THEN [frames |-> <<>>, err |-> ""]
  ELSE LET seg == ReadSegment(F[segs[i].id], 1, mid)
           keep == SelectSeq(seg.records,
                             LAMBDA r : r.Type = RecordTypeEnqueue
                                        /\ r.JobID \in activeJobIDs)
           out == [k \in 1..Len(keep) |-> Frame(keep[k])]
       IN IF seg.end = "error"
          THEN [frames |-> out, err |-> "failed to read"]
          ELSE LET rest == CompactLoop(F, segs, i + 1, activeJobIDs, mid)
               IN [frames |-> out \o rest.frames, err |-> rest.err]

\* A variant that removes no file.
RemoveNothing(F, ids) == F

Remove(F, ids) == [id \in DOMAIN F \ ids |-> F[id]]

Compact(activeJobIDs, mid) ==
  /\ compactions < MaxCompactions
  /\ compactions' = compactions + 1
  /\ IF Len(walInst.segments) <= 1
     THEN /\ walRet' = [NoWalRet EXCEPT !.op = "compact", !.live = activeJobIDs]
          /\ UNCHANGED <<files, walInst>>
     ELSE LET segs == walInst.segments
              n == Len(segs)
              temp == NewSegment(files, walInst.nextSegmentID)
              out == CompactLoop(temp.files, segs, 1, activeJobIDs, mid)
              F1 == [temp.files EXCEPT ![temp.segment.id] = @ \o out.frames]
              old == {segs[i].id : i \in 1..(n - 1)}
              F2 == Remove(F1, old)
          IN IF out.err # ""
             THEN /\ files' = F1
                  /\ UNCHANGED walInst
                  /\ walRet' = [NoWalRet EXCEPT !.op = "compact", !.live = activeJobIDs,
                                           !.err = out.err]
             ELSE /\ IF FileSize(F1[temp.segment.id]) > 0
                     THEN /\ files' = F2
                          /\ walInst' =
                               [walInst EXCEPT
                                  !.segments = <<NewSegment(F2, walInst.nextSegmentID).segment,
                                                 segs[n]>>,
                                  !.nextSegmentID = @ + 1]
                     ELSE /\ files' = Remove(F2, {temp.segment.id})
                          /\ walInst' = [walInst EXCEPT !.segments = <<segs[n]>>]
                  /\ walRet' = [NoWalRet EXCEPT !.op = "compact", !.live = activeJobIDs]
  /\ UNCHANGED <<mgr, limv, purev, written, damage, reopens>>

\* WAL.Close, and New on the same directory
Reopen ==
  /\ reopens < MaxReopens
  /\ reopens' = reopens + 1
  /\ files' = New(files).files
  /\ walInst' = New(files).wal
  /\ walRet' = [NoWalRet EXCEPT !.op = "open"]
  /\ UNCHANGED <<mgr, limv, purev, written, damage, compactions>>

\* The data or the checksum of a frame changes in the file
Corrupt(id, i) ==
  /\ damage = "none"
  /\ id \in DOMAIN files
  /\ i \in 1..Len(files[id])
  /\ files' = [files EXCEPT ![id][i].crcOk = FALSE]
  /\ damage' = "crc"
  /\ walRet' = NoWalRet
  /\ UNCHANGED <<mgr, limv, purev, walInst, written, compactions, reopens>>

\* The machine loses power while the last frame of the active segment has
\* not reached the disk in full; the process is started again.
Tear(cut) ==
  /\ damage = "none"
  /\ LET a == walInst.activeSegment
         n == Len(files[a])
     IN /\ n > 0
        /\ cut < files[a][n].len
        /\ files' = [files EXCEPT ![a][n].bytes = cut]
  /\ walInst' = New(files').wal
  /\ damage' = "torn"
  /\ walRet' = [NoWalRet EXCEPT !.op = "open"]
  /\ UNCHANGED <<mgr, limv, purev, written, compactions, reopens>>

(***************************************************************************)
(* The operations of the Limiter, and the clock between them               *)
(***************************************************************************)
\* Limiter.Allow
Allow(q) ==
  /\ limCount.allows < MaxAllows
  /\ limCount' = [limCount EXCEPT !.allows = @ + 1]
  /\ LET out == IF q \notin DOMAIN buckets
                THEN [ok |-> TRUE]
                ELSE AllowN(buckets[q], 1, now)
     IN /\ buckets' = IF q \notin DOMAIN buckets THEN buckets
                      ELSE [buckets EXCEPT ![q] = out.bucket]
        /\ limRet' = [op |-> "allow", queue |-> q, ok |-> out.ok]
        /\ limHist' = [limHist EXCEPT
                         ![q].admits = IF out.ok THEN Append(@, now) ELSE @,
                         ![q].denied = IF out.ok THEN NoTime ELSE now]
  /\ UNCHANGED <<mgr, walv, purev>>

\* Limiter.SetRate
SetRate(q, capacity, refillRate) ==
  /\ limCount.sets < MaxSetRates
  /\ limCount' = [limCount EXCEPT !.sets = @ + 1]
  /\ buckets' = IF q \notin DOMAIN buckets
                THEN buckets @@ (q :> NewTokenBucket(capacity, refillRate, now))
                ELSE [buckets EXCEPT
                        ![q] = TokenBucketSetRate(@, capacity, refillRate, now)]
  /\ limRet' = [op |-> "setrate", queue |-> q, ok |-> TRUE]
  /\ limHist' = [limHist EXCEPT
                   ![q].sets = @ + 1,
                   ![q].created = IF limHist[q].sets = 0 THEN now ELSE @,
                   ![q].admits = <<>>,
                   ![q].denied = NoTime]
  /\ UNCHANGED <<mgr, walv, purev>>

\* Time passes
Sleep(ms) ==
  /\ limCount.sleeps < MaxSleeps
  /\ limCount' = [limCount EXCEPT !.sleeps = @ + 1]
  /\ now' = now + ms * UsPerMs
  /\ limRet' = NoLimRet
  /\ UNCHANGED <<quiet, walv, purev, buckets, limHist>>

(***************************************************************************)
(* The calls of the record codec                                           *)
(***************************************************************************)
\* rec.Marshal() for one record, as in TestRecordMarshalUnmarshal
MarshalRecord(r, order) ==
  /\ codec.op = "none"
  /\ codec' = [op |-> "marshal", rec |-> r, data |-> Marshal(r, order),
               out |-> ErrInvalidRecord]
  /\ UNCHANGED <<mgr, walv, limv, calc>>

\* rec2.Unmarshal(data) on a new Record, for the data Marshal returned
UnmarshalRecord ==
  /\ codec.op = "marshal"
  /\ codec' = [codec EXCEPT !.op = "unmarshal", !.out = Unmarshal(codec.data)]
  /\ UNCHANGED <<mgr, walv, limv, calc>>

\* backoff.Calculate(cfg, attempt)
CalculateCall(cfg, attempt, u) ==
  /\ calc' = [op |-> "calculate", cfg |-> cfg, attempt |-> attempt, u |-> u,
              out |-> Calculate(cfg, attempt, u)]
  /\ UNCHANGED <<mgr, walv, limv, codec>>

(***************************************************************************)
(* The specifications.  A step is a step of a call of a client thread, a   *)
(* tick of the reclaimer, or the clock moving on.  W are the client        *)
(* threads that issue calls and oks the outcomes a WAL append can have.    *)
(***************************************************************************)
JobIDs == 1..(nextJob - 1)
LeaseIDs == 1..(nextLease - 1)

Call(W, oks, inputs, keys, maxs, vis) ==
  \/ \E w \in W, q \in QueueNames, in \in inputs, key \in keys :
       EnqueueBegin(w, q, in.payload, in.priority, in.delayMs, in.maxRetries, key)
  \/ \E w \in W, ok \in oks : EnqueueCommit(w, ok)
  \/ \E w \in W, q \in QueueNames, maxJobs \in maxs, visibilityMs \in vis :
       Lease(w, q, maxJobs, visibilityMs)
  \/ \E w \in W, jobID \in JobIDs, leaseID \in LeaseIDs : AckBegin(w, jobID, leaseID)
  \/ \E w \in W, ok \in oks : AckCommit(w, ok)
  \/ \E w \in W, jobID \in JobIDs, leaseID \in LeaseIDs : NackBegin(w, jobID, leaseID)
  \/ \E w \in W, ok \in oks, u \in RandSamples : NackCommit(w, ok, u)

\* Two client threads, the reclaimer and the clock; every WAL append succeeds
\* and the process keeps running.
Next ==
  \/ Call(Workers, {TRUE}, JobInputs, IdemKeys, MaxJobsArgs, VisibilityMs)
  \/ checkLeaseTimeouts({TRUE})
  \/ Advance

Spec == Init /\ [][Next]_vars

\* One client thread, the reclaimer and the clock; a WAL append may fail, and
\* the process may be killed and started again.
NextCrash ==
  \/ Call({"w1"}, BOOLEAN, JobInputs, IdemKeys, MaxJobsArgs, VisibilityMs)
  \/ checkLeaseTimeouts(BOOLEAN)
  \/ Advance
  \/ Start

SpecCrash == Init /\ [][NextCrash]_vars

\* One client thread, the reclaimer and the clock; every WAL append succeeds.
\* The producer also enqueues a job that is retried twice, and presents an
\* idempotency key.
NextSeq ==
  \/ Call({"w1"}, {TRUE}, JobInputs \cup RetryInputs, IdemKeys \cup KeysUsed,
         MaxJobsArgs, VisibilityMs)
  \/ checkLeaseTimeouts({TRUE})
  \/ Advance

SpecSeq == Init /\ [][NextSeq]_vars

\* One client thread, the reclaimer and the clock; every WAL append succeeds.
\* The client passes arguments of every kind the signatures admit: a priority
\* (uint8) above 9, a count (int) and a visibility (int64) that are zero or
\* negative.
NextArgs ==
  \/ Call({"w1"}, {TRUE}, ArgInputs, IdemKeys, MaxJobsAny, VisibilityAny)
  \/ checkLeaseTimeouts({TRUE})
  \/ Advance

SpecArgs == Init /\ [][NextArgs]_vars

\* Two client threads, the reclaimer and the clock; every WAL append succeeds.
\* Every Enqueue presents the same idempotency key.
NextKey ==
  \/ Call(Workers, {TRUE}, KeyInputs, KeysUsed, MaxJobsArgs, VisibilityMs)
  \/ checkLeaseTimeouts({TRUE})
  \/ Advance

SpecKey == Init /\ [][NextKey]_vars

\* The WAL alone: a client that appends, replays and compacts, the directory
\* closed and opened again, and a file damaged once.
NextWal ==
  \/ \E r \in WalRecords : Write(r)
  \/ \E mid \in TornReads : Replay(mid)
  \/ \E activeJobIDs \in SUBSET WalJobs, mid \in TornReads : Compact(activeJobIDs, mid)
  \/ Reopen
  \/ \E id \in DOMAIN files, i \in 1..MaxWrites : Corrupt(id, i)
  \/ \E cut \in TornCuts : Tear(cut)

SpecWal == Init /\ [][NextWal]_vars

\* The Limiter alone: callers that ask for admission to two queues and set
\* their rates, and the clock.
NextLimit ==
  \/ \E q \in LimitQueues : Allow(q)
  \/ \E q \in LimitQueues, rate \in Rates : SetRate(q, rate.capacity, rate.refillRate)
  \/ \E ms \in SleepMs : Sleep(ms)

SpecLimit == Init /\ [][NextLimit]_vars

\* The codec alone: a record is encoded and the bytes are decoded.
NextRecord ==
  \/ \E r \in RecordInputs : \E order \in RangeOrders(r.Headers) :
       MarshalRecord(r, order)
  \/ UnmarshalRecord

SpecRecord == Init /\ [][NextRecord]_vars

\* The backoff function alone
NextBackoff ==
  \E cfg \in Configs, attempt \in Attempts, u \in RandAny : CalculateCall(cfg, attempt, u)

SpecBackoff == Init /\ [][NextBackoff]_vars

(***************************************************************************)
(* What the properties below speak of                                      *)
(***************************************************************************)
InReady(id) == \E q \in QueueNames : id \in Items(ready[q])
InInflight(id) == \E q \in QueueNames : id \in inflight[q]
InDlq(id) == \E q \in QueueNames : id \in dlq[q]

HasRecord(type, id) == \E i \in 1..Len(wal) : wal[i].Type = type /\ wal[i].JobID = id
EnqueuedJobs == {id \in 1..MaxJobs : HasRecord(RecordTypeEnqueue, id)}
AckedJobs == {id \in 1..MaxJobs : HasRecord(RecordTypeAck, id)}

Leased == {last.jobs[i].ID : i \in 1..Len(last.jobs)}
LeaseReturned == last.op = "lease" /\ last.err = ""

(***************************************************************************)
(* C1: every job that was enqueued and is not acked is in exactly one of   *)
(* ready, in-flight and dlq of its queue, and its Status names that one.   *)
(***************************************************************************)
InOneContainer(id) ==
  LET q == jobs[id].Queue
      r == id \in Items(ready[q])
      f == id \in inflight[q]
      d == id \in dlq[q]
  IN /\ (r /\ ~f /\ ~d) \/ (~r /\ f /\ ~d) \/ (~r /\ ~f /\ d)
     /\ r => jobs[id].Status = JobStatusReady
     /\ f => jobs[id].Status = JobStatusInflight
     /\ d => jobs[id].Status = JobStatusDLQ
     /\ \A p \in QueueNames \ {q} :
          id \notin Items(ready[p]) /\ id \notin inflight[p] /\ id \notin dlq[p]

C1_OneContainer ==
  \A id \in EnqueuedJobs \ AckedJobs : id \in DOMAIN jobs /\ InOneContainer(id)

Restarted == last.op = "start"

(***************************************************************************)
(* C2: after a restart a job with an ACK record in the log is in none of   *)
(* ready, in-flight and dlq.                                               *)
(***************************************************************************)
C2_AckedStaysGone ==
  Restarted => \A id \in AckedJobs : ~InReady(id) /\ ~InInflight(id) /\ ~InDlq(id)

(***************************************************************************)
(* The replay rules as the specification words them: a state maps each job *)
(* present to its queue, container, attempts and scheduled time.           *)
(*   ENQUEUE       insert the job as READY                                 *)
(*   ACK           remove the job if it is present anywhere                *)
(*   NACK, REQUEUE update attempts and scheduled time; an in-flight job    *)
(*                 goes to ready; attempts above the maximum go to dead    *)
(*   TOMBSTONE     remove the job from any container                       *)
(***************************************************************************)
Without(f, k) == [x \in DOMAIN f \ {k} |-> f[x]]

SpecApply(st, r) ==
  CASE r.Type = RecordTypeEnqueue ->
         Ext(st, r.JobID, [Queue |-> r.Queue, Status |-> JobStatusReady,
                           Tries |-> r.Tries, ETA |-> r.ETA,
                           MaxRetries |-> r.MaxRetries])
    [] r.Type \in {RecordTypeAck, RecordTypeTombstone} -> Without(st, r.JobID)
    [] r.Type \in {RecordTypeNack, RecordTypeRequeue} ->
         IF r.JobID \notin DOMAIN st THEN st
         ELSE [st EXCEPT ![r.JobID] =
                 [@ EXCEPT !.Tries = r.Tries, !.ETA = r.ETA,
                           !.Status = IF r.Tries > @.MaxRetries
                                        THEN JobStatusDLQ ELSE JobStatusReady]]
    [] OTHER -> st

RECURSIVE SpecFold(_, _, _)
SpecFold(st, recs, i) ==
  IF i > Len(recs) THEN st ELSE SpecFold(SpecApply(st, recs[i]), recs, i + 1)

Present == {id \in DOMAIN jobs : InReady(id) \/ InInflight(id) \/ InDlq(id)}

\* The rebuilt state in the same shape; a job held by two containers at once
\* is shown under the first of ready, in-flight, dlq.
Rebuilt ==
  [id \in Present |->
     [Queue |-> jobs[id].Queue,
      Status |-> IF InReady(id) THEN JobStatusReady
                 ELSE IF InInflight(id) THEN JobStatusInflight ELSE JobStatusDLQ,
      Tries |-> jobs[id].Tries, ETA |-> jobs[id].ETA,
      MaxRetries |-> jobs[id].MaxRetries]]

(***************************************************************************)
(* C3: the state a restart rebuilds equals the fold of the specified       *)
(* replay rules over the log, starting from the empty state.               *)
(***************************************************************************)
C3_ReplayIsFold == Restarted => Rebuilt = SpecFold(<<>>, wal, 1)

(***************************************************************************)
(* C4: a restart puts every job that was ready or in-flight back into the  *)
(* ready heap of its queue, READY and with the same payload, and the       *)
(* number of ready jobs afterwards is the number of those jobs.            *)
(***************************************************************************)
Live == {id \in DOMAIN jobs : InReady(id) \/ InInflight(id)}

ReadyCount(rdy) == Cardinality(UNION {Items(rdy[q]) : q \in QueueNames})

C4_Restart ==
  restarts' # restarts =>
    /\ \A id \in Live :
         /\ id \in DOMAIN jobs'
         /\ id \in Items(ready'[jobs[id].Queue])
         /\ jobs'[id].Status = JobStatusReady
         /\ jobs'[id].Payload = jobs[id].Payload
    /\ ReadyCount(ready') = Cardinality(Live)

C4_NoJobLost == [][C4_Restart]_vars

(***************************************************************************)
(* C5: after a restart a job carries the attempts and the scheduled time   *)
(* of its last NACK or REQUEUE record.                                     *)
(***************************************************************************)
Retried(id) ==
  {i \in 1..Len(wal) : /\ wal[i].JobID = id
                       /\ wal[i].Type \in {RecordTypeNack, RecordTypeRequeue}}

LastRetry(id) == wal[CHOOSE i \in Retried(id) : \A k \in Retried(id) : k <= i]

C5_ReplayKeepsAttempts ==
  Restarted =>
    \A id \in EnqueuedJobs \ AckedJobs :
      Retried(id) # {} =>
        /\ id \in DOMAIN jobs
        /\ jobs[id].Tries = LastRetry(id).Tries
        /\ ~IsZero(LastRetry(id).ETA) => jobs[id].ETA = LastRetry(id).ETA

(***************************************************************************)
(* C6: a Lease returns a job whenever the ready heap of the queue holds a  *)
(* job whose scheduled time has come.                                      *)
(***************************************************************************)
Deliverable(id, t) == jobs[id].Status = JobStatusReady /\ jobs[id].ETA <= t

C6_LeaseFindsDeliverable ==
  (LeaseReturned /\ last.jobs = <<>>) =>
    \A id \in Items(ready[last.queue]) : ~Deliverable(id, last.t)

(***************************************************************************)
(* C7: the jobs a Lease hands out follow the preference order among the    *)
(* jobs deliverable at lease time: higher priority first, then earlier     *)
(* scheduled time, then earlier enqueue time.  No job handed out is        *)
(* preceded by a less preferred one, and no deliverable job left in the    *)
(* heap for a later Lease is preferred to a job handed out.                *)
(***************************************************************************)
Preferred(a, b) ==
  \/ a.Priority > b.Priority
  \/ a.Priority = b.Priority /\ a.ETA < b.ETA
  \/ a.Priority = b.Priority /\ a.ETA = b.ETA /\ a.EnqueuedAt < b.EnqueuedAt

C7_LeaseOrder ==
  LeaseReturned =>
    /\ \A i, k \in 1..Len(last.jobs) :
         i < k => ~Preferred(last.jobs[k], last.jobs[i])
    /\ \A i \in 1..Len(last.jobs) :
         \A id \in Items(ready[last.queue]) :
           Deliverable(id, last.t) => ~Preferred(View(jobs[id]), last.jobs[i])

(***************************************************************************)
(* C8: no job a Lease returns has a scheduled time later than the time of  *)
(* the Lease.                                                              *)
(***************************************************************************)
C8_NotBeforeETA ==
  LeaseReturned => \A i \in 1..Len(last.jobs) : last.jobs[i].ETA <= last.t

\* A Lease hands out a job that was sent back with a backoff.
C8_Witness ==
  /\ LeaseReturned
  /\ \E i \in 1..Len(last.jobs) :
       /\ last.jobs[i].ETA > StartTime
       /\ last.jobs[i].Tries > 0

(***************************************************************************)
(* C9: no job is handed out twice: a job in flight is not in the ready     *)
(* heap, the heap holds no job twice, the jobs of one Lease are distinct,  *)
(* and each is in flight under the token returned with it, which no other  *)
(* job in flight carries.                                                  *)
(***************************************************************************)
C9_LeaseExclusive ==
  /\ \A q \in QueueNames :
       /\ Items(ready[q]) \cap inflight[q] = {}
       /\ Cardinality(Items(ready[q])) = Len(ready[q])
  /\ LeaseReturned =>
       /\ Cardinality(Leased) = Len(last.jobs)
       /\ \A i \in 1..Len(last.jobs) :
            LET j == last.jobs[i]
            IN /\ j.ID \in inflight[last.queue]
               /\ jobs[j.ID].LeaseID = j.LeaseID
               /\ j.LeaseID = lastLease[j.ID]
               /\ \A id \in inflight[last.queue] \ {j.ID} :
                    jobs[id].LeaseID # j.LeaseID

\* A Lease hands out a job while another job is out under an earlier lease.
C9_Witness ==
  /\ LeaseReturned
  /\ last.jobs # <<>>
  /\ inflight[last.queue] \ Leased # {}

(***************************************************************************)
(* C10: an Ack returns success only with the lease id of the most recent   *)
(* Lease of the job.                                                       *)
(***************************************************************************)
C10_AckNeedsCurrentLease ==
  (last.op = "ack" /\ last.err = "") => last.lease = lastLease[last.id]

(***************************************************************************)
(* C11: a job is in the dead-letter set only with attempts strictly above  *)
(* its maximum; with attempts <= maximum a nacked or reclaimed job is      *)
(* READY again.                                                            *)
(***************************************************************************)
C11_DeadOnlyAboveMax ==
  \A q \in QueueNames : \A id \in dlq[q] : jobs[id].Tries > jobs[id].MaxRetries

(***************************************************************************)
(* C12: a job with a maximum of 2 attempts goes back to ready on its first *)
(* and on its second Nack; only the third Nack dead-letters it.  The       *)
(* leases counted are those ended by a Nack, none by the reclaimer.        *)
(***************************************************************************)
Records(type, id) == {i \in 1..Len(wal) : wal[i].Type = type /\ wal[i].JobID = id}

NackReturned == last.op = "nack" /\ last.err = ""

C12_ThreeLeases ==
  (/\ NackReturned
   /\ last.id \in DOMAIN jobs
   /\ jobs[last.id].MaxRetries = 2
   /\ Records(RecordTypeRequeue, last.id) = {}
   /\ Cardinality(Records(RecordTypeNack, last.id)) <= 2)
  => InReady(last.id) /\ ~InDlq(last.id) /\ jobs[last.id].Status = JobStatusReady

(***************************************************************************)
(* C13: a job with a maximum of 0 attempts is in the dead-letter set and   *)
(* not in ready once a Nack or a lease expiry has counted an attempt.      *)
(***************************************************************************)
C13_ZeroMaxDeadLetters ==
  \A id \in DOMAIN jobs :
    (jobs[id].MaxRetries = 0 /\ jobs[id].Tries > 0) =>
      /\ InDlq(id) /\ ~InReady(id) /\ ~InInflight(id)
      /\ jobs[id].Status = JobStatusDLQ

\* The first Nack of such a job has returned.
C13_Witness ==
  /\ NackReturned
  /\ last.id \in DOMAIN jobs
  /\ jobs[last.id].MaxRetries = 0
  /\ jobs[last.id].Tries = 1
  /\ InDlq(last.id)

(***************************************************************************)
(* C14: attempts never exceed the maximum by more than one.                *)
(***************************************************************************)
C14_AttemptsBounded ==
  \A id \in DOMAIN jobs : jobs[id].Tries <= jobs[id].MaxRetries + 1

(***************************************************************************)
(* C15: an Enqueue that presents a key under which an earlier Enqueue has  *)
(* stored a job returns that job's id at once: it does not go on to the    *)
(* WAL append, and it leaves the WAL, the jobs, the containers and the     *)
(* stored keys as they were.                                               *)
(***************************************************************************)
KeyStored(key) == key # "" /\ key \in DOMAIN idem

C15_Step ==
  /\ \A w \in Workers :
       (pc[w] = "idle" /\ pc'[w] = "enqueue_wal") => ~KeyStored(arg'[w].key)
  /\ (pc' = pc /\ last'.op = "enqueue" /\ KeyStored(last'.key)) =>
       /\ last'.err = ""
       /\ last'.id = idem[last'.key]
       /\ UNCHANGED <<wal, queues, jobs, ready, inflight, dlq, idem, nextJob>>

C16_KeyLivesWithJob ==
  \A key \in DOMAIN idem : idem[key] \in Present

(***************************************************************************)
(* C17: when the WAL append of an Enqueue has failed, the call has left    *)
(* nothing behind: the named queue exists only if an earlier Enqueue into  *)
(* it was appended, and every job in a container and every stored key      *)
(* belongs to an appended ENQUEUE record.                                  *)
(***************************************************************************)
EnqueueFailed == last.op = "enqueue" /\ last.err = "wal"

QueueEnqueued(q) ==
  \E i \in 1..Len(wal) : wal[i].Type = RecordTypeEnqueue /\ wal[i].Queue = q

C17_FailedEnqueueNoTrace ==
  EnqueueFailed =>
    /\ last.queue \in queues => QueueEnqueued(last.queue)
    /\ Present \subseteq EnqueuedJobs
    /\ \A key \in DOMAIN idem : idem[key] \in EnqueuedJobs

(***************************************************************************)
(* C18: the step in which the WAL append of a Nack fails leaves the job as *)
(* it was: in flight, with the same attempts, scheduled time, lease id,    *)
(* lease deadline and status.                                              *)
(***************************************************************************)
C18_Step ==
  (last'.op = "nack" /\ last'.err = "wal") =>
    /\ last'.id \in DOMAIN jobs'
    /\ jobs'[last'.id] = jobs[last'.id]
    /\ jobs'[last'.id].Status = JobStatusInflight
    /\ jobs'[last'.id].LeaseID # NoLease
    /\ UNCHANGED <<ready, inflight, dlq>>

C18_FailedNackNoChange == [][C18_Step]_vars

(***************************************************************************)
(* C19: an Ack or a Nack of a job that is in no in-flight map returns the  *)
(* not-in-flight error, one that returns the lease error found the job in  *)
(* flight, and a call goes on to its WAL append only with the lease id the *)
(* job in flight carries.  None of these steps changes the WAL, a job or a *)
(* container.                                                              *)
(***************************************************************************)
Settling == {"ack", "nack"}

C19_Step ==
  /\ (last'.op \in Settling /\ last'.err = "not inflight") =>
       ~InInflight(last'.id) /\ UNCHANGED <<wal, jobs, ready, inflight, dlq>>
  /\ (last'.op \in Settling /\ last'.err = "invalid lease") =>
       InInflight(last'.id) /\ UNCHANGED <<wal, jobs, ready, inflight, dlq>>
  /\ \A w \in Workers :
       (pc[w] = "idle" /\ pc'[w] \in {"ack_wal", "nack_wal"}) =>
         /\ InInflight(arg'[w].id)
         /\ jobs[arg'[w].id].LeaseID = arg'[w].lease
         /\ UNCHANGED <<wal, jobs, ready, inflight, dlq>>

C19_RejectedSettle == [][C19_Step]_vars

\* An Ack with the id of a lease that has ended is refused for a job that is
\* in flight under a later lease.
C19_Witness ==
  /\ last.op = "ack" /\ last.err = "invalid lease"
  /\ InInflight(last.id)
  /\ jobs[last.id].LeaseID = lastLease[last.id]
  /\ jobs[last.id].LeaseID > 1

(***************************************************************************)
(* C20: a tick of the reclaimer takes every job whose lease deadline is    *)
(* before the time of the tick out of the in-flight map, adds one to its   *)
(* attempts, clears its lease id and deadline and puts it in ready or in   *)
(* the dead-letter set; the other jobs in flight it leaves as they are.    *)
(***************************************************************************)
Tick == pc' = pc /\ arg' = arg /\ now' = now /\ last'.op = "none"

LeaseExpired(id) == ~IsZero(jobs[id].LeaseDeadline) /\ jobs[id].LeaseDeadline < now

C20_Step ==
  Tick =>
    \A q \in QueueNames : \A id \in inflight[q] :
      IF LeaseExpired(id)
      THEN /\ id \notin inflight'[q]
           /\ jobs'[id].Tries = jobs[id].Tries + 1
           /\ jobs'[id].LeaseID = NoLease
           /\ IsZero(jobs'[id].LeaseDeadline)
           /\ \/ /\ id \in Items(ready'[q]) /\ id \notin dlq'[q]
                 /\ jobs'[id].Status = JobStatusReady
              \/ /\ id \in dlq'[q] /\ id \notin Items(ready'[q])
                 /\ jobs'[id].Status = JobStatusDLQ
      ELSE id \in inflight'[q] /\ jobs'[id] = jobs[id]

C20_Reclaim == [][C20_Step]_vars

\* A job with the default retries, leased once and left alone, is ready again
\* with one attempt counted, while another job stays in flight.
C20_Witness ==
  /\ last.op = "none"
  /\ \E id \in DOMAIN jobs :
       /\ jobs[id].MaxRetries = 3 /\ jobs[id].Tries = 1
       /\ InReady(id)
       /\ Records(RecordTypeRequeue, id) # {}
       /\ Records(RecordTypeNack, id) = {}
  /\ \E q \in QueueNames : inflight[q] # {}

(***************************************************************************)
(* C21: a job changes container (absent to ready, in flight to absent, in  *)
(* flight to ready, in flight to dead) only in a step that has appended a  *)
(* record describing the change to the log: ENQUEUE for an admission, ACK  *)
(* for a removal, NACK or REQUEUE for a retry or a dead-lettering; the     *)
(* reclaimer appends a REQUEUE record for every job it moves.              *)
(***************************************************************************)
Where(id) ==
  IF InInflight(id) THEN "inflight"
  ELSE IF InReady(id) THEN "ready"
  ELSE IF InDlq(id) THEN "dlq"
  ELSE "absent"

Appended(types, id) ==
  /\ Len(wal') > Len(wal)
  /\ SubSeq(wal', 1, Len(wal)) = wal
  /\ \E i \in (Len(wal) + 1)..Len(wal') :
       wal'[i].JobID = id /\ wal'[i].Type \in types

C21_Step ==
  \A id \in 1..MaxJobs :
    LET from == Where(id)
        to == Where(id)'
    IN  /\ (from = "absent" /\ to = "ready") => Appended({RecordTypeEnqueue}, id)
        /\ (from = "inflight" /\ to = "absent") => Appended({RecordTypeAck}, id)
        /\ (from = "inflight" /\ to \in {"ready", "dlq"}) =>
             Appended({RecordTypeNack, RecordTypeRequeue}, id)
        /\ (Tick /\ from = "inflight" /\ to \in {"ready", "dlq"}) =>
             Appended({RecordTypeRequeue}, id)

C21_LogBeforeMemory == [][C21_Step]_vars

(***************************************************************************)
(* C22: a Lease that returns gives at most max_jobs jobs, a max_jobs of 0  *)
(* or less counting as 1; every job it gives was in ready and is now in    *)
(* the in-flight map with a lease id that was never issued before, no two  *)
(* of them the same, and a lease deadline of the time of the call plus the *)
(* visibility; the jobs it does not give stay in ready, and no other job   *)
(* enters the in-flight map.                                               *)
(***************************************************************************)
C22_Step ==
  (last'.op = "lease" /\ last'.err = "") =>
    LET q == last'.queue
        n == IF last'.maxJobs <= 0 THEN 1 ELSE last'.maxJobs
        got == {last'.jobs[i].ID : i \in 1..Len(last'.jobs)}
    IN  /\ Len(last'.jobs) <= n
        /\ Cardinality(got) = Len(last'.jobs)
        /\ got \subseteq Items(ready[q])
        /\ Items(ready'[q]) = Items(ready[q]) \ got
        /\ inflight'[q] = inflight[q] \cup got
        /\ \A id \in got :
             /\ jobs'[id].Status = JobStatusInflight
             /\ jobs'[id].LeaseID # NoLease
             /\ jobs'[id].LeaseID >= nextLease
             /\ jobs'[id].LeaseDeadline = last'.t + last'.visibilityMs * UsPerMs
             /\ \A other \in got \ {id} : jobs'[other].LeaseID # jobs'[id].LeaseID
        /\ \A id \in Items(ready'[q]) : jobs'[id] = jobs[id]

C22_LeaseBatch == [][C22_Step]_vars

\* A Lease asked for a negative number of jobs has returned one job, and a
\* second job that could have been delivered is still in ready.
C22_Witness ==
  /\ last.op = "lease" /\ last.err = ""
  /\ last.maxJobs < 0
  /\ Len(last.jobs) = 1
  /\ InInflight(last.jobs[1].ID)
  /\ \E id \in Items(ready[last.queue]) : IsReady(jobs[id], now)

(***************************************************************************)
(* C23: every job in a container has a priority from 0 to 9, and a Lease   *)
(* given a visibility of zero or less returns an error, so that every job  *)
(* a Lease returns has a lease deadline after the time of the Lease.       *)
(***************************************************************************)
C23_PriorityInRange ==
  \A id \in DOMAIN jobs :
    (InReady(id) \/ InInflight(id) \/ InDlq(id)) => jobs[id].Priority \in 0..9

C23_VisibilityPositive ==
  last.op = "lease" =>
    /\ last.visibilityMs <= 0 => last.err # ""
    /\ \A i \in 1..Len(last.jobs) :
         InInflight(last.jobs[i].ID) =>
           jobs[last.jobs[i].ID].LeaseDeadline > last.t

C23_ArgsChecked == C23_PriorityInRange /\ C23_VisibilityPositive

(***************************************************************************)
(* C24: a Write appends its record to the file of the active segment when  *)
(* that file is below the segment size; when the file has reached the      *)
(* size, the Write adds a segment with an id above the id of every segment *)
(* of the WAL (the id of the active segment plus one, when the WAL was not *)
(* compacted), makes it the active one, the last of the list, and appends  *)
(* the record there, as the only record when no file was damaged.  No      *)
(* other file changes.  Once the records written                           *)
(* amount to the segment size plus the longest frame, and all of them are  *)
(* in the files, there is more than one segment.                           *)
(***************************************************************************)
RECURSIVE TotalLen(_)
TotalLen(recs) ==
  IF recs = <<>> THEN 0
  ELSE FrameHeader + MarshalLen(Head(recs)) + TotalLen(Tail(recs))

LongestFrame ==
  CHOOSE n \in {FrameHeader + MarshalLen(r) : r \in WalRecords} :
    \A r \in WalRecords : FrameHeader + MarshalLen(r) <= n

C24_Step ==
  written' # written =>
    LET r == written'[Len(written')]
        a == walInst.activeSegment
        new == walInst'.activeSegment
        ids == {walInst.segments[i].id : i \in 1..Len(walInst.segments)}
    IN  /\ written' = Append(written, r)
        /\ walInst'.segments[Len(walInst'.segments)].id = new
        /\ \A id \in DOMAIN files \ {a, new} : files'[id] = files[id]
        /\ IF FileSize(files[a]) >= SegmentSize
           THEN /\ new \notin ids
                /\ \A id \in ids : id < new
                /\ compactions = 0 => new = a + 1
                /\ DOMAIN files' = DOMAIN files \cup {new}
                /\ files'[new] = Append(IF new \in DOMAIN files THEN files[new] ELSE <<>>,
                                        Frame(r))
                /\ damage = "none" => files'[new] = <<Frame(r)>>
                /\ files'[a] = files[a]
                /\ Len(walInst'.segments) = Len(walInst.segments) + 1
           ELSE /\ new = a
                /\ DOMAIN files' = DOMAIN files
                /\ files'[a] = Append(files[a], Frame(r))
                /\ Len(walInst'.segments) = Len(walInst.segments)
        /\ (compactions = 0 /\ damage = "none"
             /\ TotalLen(written') >= SegmentSize + LongestFrame)
             => Len(walInst'.segments) > 1

FirstBad(frames) ==
  IF \A i \in 1..Len(frames) : frames[i].crcOk THEN Len(frames) + 1
  ELSE CHOOSE i \in 1..Len(frames) :
         ~frames[i].crcOk /\ \A k \in 1..(i - 1) : frames[k].crcOk

RECURSIVE BeforeBad(_)
BeforeBad(i) ==
  IF i > Len(walInst.segments) THEN <<>>
  ELSE LET frames == files[walInst.segments[i].id]
       IN [k \in 1..(FirstBad(frames) - 1) |-> frames[k].rec] \o BeforeBad(i + 1)

Whole(f) == f.bytes = f.len

TornTail ==
  /\ damage = "torn"
  /\ \A id \in DOMAIN files : \A i \in 1..Len(files[id]) :
       ~Whole(files[id][i]) => i = Len(files[id])

RECURSIVE WholeFrames(_)
WholeFrames(i) ==
  IF i > Len(walInst.segments) THEN <<>>
  ELSE LET frames == SelectSeq(files[walInst.segments[i].id], Whole)
       IN [k \in 1..Len(frames) |-> frames[k].rec] \o WholeFrames(i + 1)

C27_TornTailIsEnd ==
  (walRet.op = "replay" /\ TornTail) =>
    /\ walRet.err = ""
    /\ walRet.records = WholeFrames(1)

(***************************************************************************)
(* C28: a Compact on undamaged files of more than one segment returns no   *)
(* error, leaves the file of the active segment as it is and the segment   *)
(* active, and removes the files of the segments before it.  In their      *)
(* place the WAL has one segment with a new id, whose file holds the       *)
(* ENQUEUE records of the live ids that were in those files, in the order  *)
(* they had there, and nothing else; when there is no such record it has   *)
(* no segment in their place.  Every live id that had an ENQUEUE record in *)
(* the files has one afterwards.  With one segment nothing changes.        *)
(***************************************************************************)
RECURSIVE PriorRecords(_)
PriorRecords(i) ==
  IF i >= Len(walInst.segments) THEN <<>>
  ELSE LET frames == files[walInst.segments[i].id]
       IN [k \in 1..Len(frames) |-> frames[k].rec] \o PriorRecords(i + 1)

Enqueued(F, id) ==
  \E k \in DOMAIN F : \E i \in 1..Len(F[k]) :
    F[k][i].rec.Type = RecordTypeEnqueue /\ F[k][i].rec.JobID = id

C28_Step ==
  (compactions' = compactions + 1 /\ damage = "none") =>
    LET segs == walInst.segments
        n == Len(segs)
        a == walInst.activeSegment
        live == walRet'.live
        prior == {segs[i].id : i \in 1..(n - 1)}
        found == SelectSeq(PriorRecords(1),
                           LAMBDA r : r.Type = RecordTypeEnqueue /\ r.JobID \in live)
        others == DOMAIN files' \ {a}
        listed == {walInst'.segments[i].id : i \in 1..Len(walInst'.segments)}
    IN  /\ walRet'.err = ""
        /\ IF n <= 1
           THEN UNCHANGED <<files, walInst>>
           ELSE /\ segs[n].id = a
                /\ walInst'.activeSegment = a
                /\ files'[a] = files[a]
                /\ prior \cap DOMAIN files' = {}
                /\ listed = DOMAIN files'
                /\ Len(walInst'.segments) = Cardinality(listed)
                /\ IF found = <<>> THEN others = {}
                   ELSE \E new \in others :
                          /\ others = {new}
                          /\ new \notin DOMAIN files
                          /\ Len(files'[new]) = Len(found)
                          /\ \A i \in 1..Len(found) :
                               /\ files'[new][i].rec = found[i]
                               /\ Whole(files'[new][i]) /\ files'[new][i].crcOk
                /\ \A id \in live : Enqueued(files, id) => Enqueued(files', id)

C29_Step ==
  \A q \in LimitQueues :
    (/\ q \in DOMAIN buckets'
     /\ limHist'[q].sets = 1
     /\ buckets'[q].capacity > 0 /\ buckets'[q].refillRate > 0) =>
      LET c == buckets'[q].capacity
          r == buckets'[q].refillRate
          admits == limHist'[q].admits
      IN  /\ buckets'[q].tokens >= 0
          /\ buckets'[q].tokens <= c
          /\ \A i, j \in 1..Len(admits) :
               i <= j => (j - i + 1) * TokenUnit <= c + r * (admits[j] - admits[i])
          /\ (limRet'.op = "allow" /\ limRet'.queue = q) =>
               /\ now = limHist[q].created =>
                    (limRet'.ok <=> Len(limHist[q].admits) * TokenUnit < c)
               /\ (/\ limHist[q].denied # NoTime
                   /\ (now - limHist[q].denied) * r >= TokenUnit) => limRet'.ok

Unlimited(q) ==
  \/ q \notin DOMAIN buckets
  \/ buckets[q].capacity <= 0
  \/ buckets[q].refillRate <= 0

C30_Step ==
  \A q \in LimitQueues :
    (limRet'.op \in {"allow", "setrate"} /\ limRet'.queue = q) =>
      /\ (limRet'.op = "allow" /\ Unlimited(q)) => limRet'.ok
      /\ \A other \in LimitQueues \ {q} :
           /\ other \in DOMAIN buckets' <=> other \in DOMAIN buckets
           /\ other \in DOMAIN buckets => buckets'[other] = buckets[other]

C30_PerQueue == [][C30_Step]_vars

\* One queue has used up its bucket and has just been refused; an Allow for
\* another queue, whose bucket has capacity 0, returns true at the same time.
C30_Witness ==
  /\ limRet.op = "allow" /\ limRet.ok
  /\ \E q1, q2 \in DOMAIN buckets :
       /\ q1 # q2
       /\ limRet.queue = q2
       /\ buckets[q2].capacity = 0
       /\ buckets[q1].capacity > 0 /\ buckets[q1].refillRate > 0
       /\ buckets[q1].tokens < TokenUnit
       /\ limHist[q1].denied = now

(***************************************************************************)
(* C31: for every record with an ETA on a millisecond, of every type, with *)
(* empty and non-empty strings, payload and headers, Unmarshal of the      *)
(* bytes Marshal returned gives no error and a record equal to the record  *)
(* marshalled in every field, whatever the order Marshal met the headers   *)
(* in.                                                                     *)
(***************************************************************************)
C31_RoundTrip ==
  codec.op = "unmarshal" /\ codec.rec.ETA % UsPerMs = 0 =>
    /\ codec.out.err = ""
    /\ \A f \in DOMAIN codec.rec : codec.out.rec[f] = codec.rec[f]
    /\ DOMAIN codec.out.rec = DOMAIN codec.rec

\* A NACK record with two headers, a payload, a lease id, a reason and an ETA
\* before 1970 has come back from its bytes.
C31_Witness ==
  /\ codec.op = "unmarshal"
  /\ codec.rec.Type = RecordTypeNack
  /\ Cardinality(DOMAIN codec.rec.Headers) = 2
  /\ codec.rec.Payload # <<>> /\ codec.rec.LeaseID # <<>> /\ codec.rec.Reason # <<>>
  /\ codec.rec.ETA = -5000 /\ codec.rec.Tries = 300
  /\ codec.out.err = "" /\ codec.out.rec = codec.rec

(***************************************************************************)
(* C32: Calculate returns 0 for attempt 0.  For an attempt of 1 or more,   *)
(* with raw the smaller of BaseDelay * Multiplier^(attempt-1) and          *)
(* MaxDelay, the delay returned lies between raw less Jitter * raw and raw *)
(* plus Jitter * raw; with Jitter 0 it is raw itself, and is no more than  *)
(* MaxDelay.                                                               *)
(***************************************************************************)
Raw(cfg, attempt) ==
  LET exp == cfg.BaseDelay * cfg.Multiplier ^ (attempt - 1)
  IN IF exp < cfg.MaxDelay THEN exp ELSE cfg.MaxDelay

C33_NoAppendUnderMutex == last.held = {}

(***************************************************************************)
(* C34: when a Lease returns a job while a job equal to it in priority,    *)
(* scheduled time and enqueue time stays ready in the queue, the job       *)
(* returned has the smaller id; and jobs so tied that are returned         *)
(* together come in the order of their ids.                                *)
(***************************************************************************)
Tied(a, b) ==
  a.Priority = b.Priority /\ a.ETA = b.ETA /\ a.EnqueuedAt = b.EnqueuedAt

C34_TieBreakByID ==
  LeaseReturned =>
    /\ \A i \in 1..Len(last.jobs) : \A id \in Items(ready[last.queue]) :
         Tied(last.jobs[i], jobs[id]) => last.jobs[i].ID < id
    /\ \A i, k \in 1..Len(last.jobs) :
         i < k /\ Tied(last.jobs[i], last.jobs[k]) => last.jobs[i].ID < last.jobs[k].ID

(***************************************************************************)
(* C35: when every Enqueue presents the same idempotency key, at most one  *)
(* job is admitted, whatever the interleaving of the calls: the log has    *)
(* the ENQUEUE record of one job at most, the queues hold one job at most, *)
(* and every Enqueue that returns without error returns the id of that     *)
(* job.                                                                    *)
(***************************************************************************)
C35_OneJobPerKey ==
  /\ Cardinality(EnqueuedJobs) <= 1
  /\ Cardinality({id \in DOMAIN jobs : InReady(id) \/ InInflight(id) \/ InDlq(id)}) <= 1
  /\ last.op = "enqueue" /\ last.err = "" => EnqueuedJobs = {last.id}

(***************************************************************************)
(* C36: a job whose Ack has returned success, and so has its ACK record in *)
(* the log, is in none of ready, in-flight and the dead-letter set, and no *)
(* Lease returns it.                                                       *)
(***************************************************************************)
C36_AckedIsGone ==
  \A id \in AckedJobs :
    /\ ~InReady(id) /\ ~InInflight(id) /\ ~InDlq(id)
    /\ LeaseReturned => id \notin Leased

(***************************************************************************)
(* C37: the log has at most one ACK or NACK record for a lease id: of the  *)
(* Acks and Nacks that present the same job id and lease id, one at most   *)
(* returns success.                                                        *)
(***************************************************************************)
Settled(lease) ==
  {i \in 1..Len(wal) : /\ wal[i].Type \in {RecordTypeAck, RecordTypeNack}
                       /\ wal[i].LeaseID = lease}

C37_SettledOnce == \A lease \in LeaseIDs : Cardinality(Settled(lease)) <= 1

(***************************************************************************)
(* C38: every job in an in-flight map has a lease id and a lease deadline, *)
(* so that the reclaimer takes it once the deadline has passed: no job     *)
(* stays in flight for ever, even when appends to the WAL fail.            *)
(***************************************************************************)
C38_InflightHasDeadline ==
  \A q \in QueueNames : \A id \in inflight[q] :
    jobs[id].LeaseID # NoLease /\ ~IsZero(jobs[id].LeaseDeadline)

(***************************************************************************)
(* C39: a job in the dead-letter set stays there: no step, a stop and      *)
(* restart with its replay of the WAL included, takes it out of the        *)
(* dead-letter set or puts it in ready or in flight, so no Lease returns   *)
(* it again.                                                               *)
(***************************************************************************)
C39_Step ==
  \A q \in QueueNames : \A id \in dlq[q] :
    /\ id \in dlq'[q]
    /\ id \notin Items(ready'[q])
    /\ id \notin inflight'[q]

C39_DeadStaysDead == [][C39_Step]_vars

(***************************************************************************)
(* C40: while no file is damaged, the segments of the WAL are listed in    *)
(* strictly ascending order of their ids and the active segment has the    *)
(* highest id, and so a replay gives the records in the order in which a   *)
(* replay gives them once the directory has been closed and opened again.  *)
(***************************************************************************)
C40_SegmentsAscending ==
  damage = "none" =>
    LET segs == walInst.segments
    IN /\ \A i, j \in 1..Len(segs) : i < j => segs[i].id < segs[j].id
       /\ \A i \in 1..Len(segs) : segs[i].id <= walInst.activeSegment
       /\ ReplayLoop(files, segs, 1, "error").records
            = ReplayLoop(files, New(files).wal.segments, 1, "error").records

====
